---------------------------- MODULE Spec2Model ----------------------------
(***************************************************************************)
(* A model of the Mann-Whitney U-test of package stats                     *)
(* (src/stats/utest.go, src/stats/udist.go).                               *)
(*                                                                         *)
(* float64 values are modelled as exact rationals <<num, den>> with        *)
(* den > 0 in lowest terms; rounding error of the floating-point           *)
(* arithmetic is not modelled.  The p-value of the normal approximation,   *)
(* 2*min(Phi(z), 1-Phi(z)), is kept as a term over z*z (see NormalP).      *)
(***************************************************************************)
EXTENDS Integers, Sequences, FiniteSets, TLC

(***************************************************************************)
(* Bounds of the model.                                                    *)
(***************************************************************************)
\* Largest total size n1+n2 of two samples handed to MannWhitneyUTest.
MaxTotal == 4
\* Largest size of a sample s handed to MannWhitneyUTest as (s, s).
MaxSelf == 3
\* Sample values are drawn from 1..MaxVal.
MaxVal == 3
\* Largest N1 and N2 of an untied UDist handed to PMF and CDF.
MaxN == 5
\* Largest N1 and N2 of a UDist with a tie vector handed to PMF and CDF.
MaxTiedN == 2
\* The small value a caller lowers the two limits to.
SmallLimit == 1
\* QuantileCI is called with n up to MaxQN (and with LargeN).
MaxQN == 5
\* FromSample is called with samples of up to MaxSampleLen values.
MaxSampleLen == 3
\* The values of those samples are drawn from 1..MaxX.
MaxX == 2
\* Mark and Unmark are called with node ids up to MaxBeyond past the
\* initial capacity of a NodeMarks.
MaxBeyond == 1
\* SCC is called on graphs of up to MaxNodes nodes.
MaxNodes == 3
\* The tied and the untied algorithm of UDist are compared on all-ones
\* tie vectors of up to MaxOnes entries.
MaxOnes == 6

(***************************************************************************)
(* Program constants.                                                      *)
(***************************************************************************)
\* var MannWhitneyExactLimit = 50
DefaultExactLimit == 50
\* var MannWhitneyTiesExactLimit = 9
DefaultTiesExactLimit == 9
\* var quantileCIApproxThreshold = 30
DefaultApproxThreshold == 30
\* The bits of a uint32 word of NodeMarks.marks.
WordBits == 32
\* make([]uint32, 1024/32): the marks NewNodeMarks makes room for.
InitialBits == 1024

(***************************************************************************)
(* Exact rational arithmetic standing for float64.                         *)
(***************************************************************************)
Abs(a) == IF a < 0 THEN -a ELSE a

RECURSIVE GCD(_, _)
GCD(a, b) == IF b = 0 THEN a ELSE GCD(b, a % b)

Rat(n, d) ==
    LET g == GCD(Abs(n), Abs(d))
        s == IF d < 0 THEN -1 ELSE 1
    IN  <<(s * n) \div g, (s * d) \div g>>

R(n) == <<n, 1>>
RAdd(a, b) == Rat(a[1] * b[2] + b[1] * a[2], a[2] * b[2])
RSub(a, b) == Rat(a[1] * b[2] - b[1] * a[2], a[2] * b[2])
RMul(a, b) == Rat(a[1] * b[1], a[2] * b[2])
RDiv(a, b) == Rat(a[1] * b[2], a[2] * b[1])
RLt(a, b) == a[1] * b[2] < b[1] * a[2]
RLe(a, b) == a[1] * b[2] <= b[1] * a[2]
\* math.Floor followed by int().
Floor(a) == a[1] \div a[2]
\* int(): truncation toward zero.
Trunc(a) == IF a[1] >= 0 THEN a[1] \div a[2] ELSE -((-a[1]) \div a[2])

Min(a, b) == IF a < b THEN a ELSE b

\* Strict(x, e) is e.  TLC evaluates the arguments of an operator only when
\* they are used; comparing x first makes it evaluate x before e, so that a
\* loop's state is computed pass by pass and not as one nested expression.
Strict(x, e) == IF x = x THEN e ELSE e

(***************************************************************************)
(* Helpers of package stats used by the code below.                        *)
(***************************************************************************)
\* choose(n, k): the binomial coefficient.
RECURSIVE choose(_, _)
choose(n, k) ==
    IF k < 0 \/ k > n THEN 0
    ELSE IF k = 0 THEN 1
    ELSE (choose(n - 1, k - 1) * n) \div k

\* sumint(xs): the sum of a slice of ints.
RECURSIVE sumint(_)
sumint(xs) == IF xs = <<>> THEN 0 ELSE xs[1] + sumint(Tail(xs))

\* sign(x): -1, 0 or 1.
sign(x) == IF x[1] < 0 THEN -1 ELSE IF x[1] > 0 THEN 1 ELSE 0

(***************************************************************************)
(* UDist (src/stats/udist.go).  A UDist is a record [N1, N2, T]; T = <<>>  *)
(* stands for a nil tie vector.                                            *)
(***************************************************************************)
UDist(n1, n2, T) == [N1 |-> n1, N2 |-> n2, T |-> T]

hasTies(d) == \E i \in 1..Len(d.T) : d.T[i] > 1

\* The body of the inner loop of p at index U1:
\*   l := 0.0; if U1-m >= 0 { l = float64(n) * lp[U1-m] }
\*   r := float64(m) * rp[U1]; out[U1] = (l + r) / nplusm
\* memo is the whole table; lp, rp and out are the slices memo[n-1],
\* memo[rpi] and memo[n], read and written through memo so that the
\* aliasing of rp and out is the one the code has.
pCell(memo, n, m, rpi, U1) ==
    LET l == IF U1 - m >= 0 THEN RMul(R(n), memo[n - 1][U1 - m]) ELSE R(0)
        r == RMul(R(m), memo[rpi][U1])
    IN  [memo EXCEPT ![n][U1] = RDiv(RAdd(l, r), R(n + m))]

\* The inner loop of p, for U1 := hi; U1 >= lo; U1--, in this order.  The
\* range is halved only to keep the depth of evaluation logarithmic.
RECURSIVE pInner(_, _, _, _, _, _)
pInner(memo, n, m, rpi, hi, lo) ==
    IF hi < lo THEN memo
    ELSE IF hi = lo THEN pCell(memo, n, m, rpi, hi)
    ELSE LET mid == (hi + lo + 1) \div 2
             upper == pInner(memo, n, m, rpi, hi, mid)
         IN  Strict(upper, pInner(upper, n, m, rpi, mid - 1, lo))

\* The body of the loop over n of p: rp is memo[n] if n <= m-1 and
\* memo[m-1] otherwise; ulim = min(n*m, U).
pRowStep(memo, n, m, U) ==
    pInner(memo, n, m, IF n <= m - 1 THEN n ELSE m - 1, Min(n * m, U), 0)

\* The loop over n of p: for n := 1; n <= nlim; n++ { ... }.
RECURSIVE pRow(_, _, _, _, _)
pRow(memo, n, nlim, m, U) ==
    IF n > nlim THEN memo
    ELSE LET out == pRowStep(memo, n, m, U)
         IN  Strict(out, pRow(out, n + 1, nlim, m, U))

\* The loop over m of p: for m := 0; m <= M; m++ { memo[0][0] = 1; ... }.
RECURSIVE pRows(_, _, _, _, _)
pRows(memo, m, M, N, U) ==
    IF m > M THEN memo
    ELSE LET row == pRow([memo EXCEPT ![0][0] = R(1)], 1, Min(N, m), m, U)
         IN  Strict(row, pRows(row, m + 1, M, N, U))

\* d.p(U) without if N > M { N, M = M, N }.
p_noSwap(d, U) ==
    LET N == d.N1
        M == d.N2
        memo == [row \in 0..N |-> [col \in 0..U |-> R(0)]]
    IN  pRows(memo, 0, M, N, U)[N]

\* d.p(U): p_{N1,N2}(u) for u in 0..U, as a function on 0..U.
p(d, U) ==
    LET N == Min(d.N1, d.N2)
        M == IF d.N1 > d.N2 THEN d.N1 ELSE d.N2
        memo == [row \in 0..N |-> [col \in 0..U |-> R(0)]]
    IN  pRows(memo, 0, M, N, U)[N]

\* The 2*U statistic without the within-group term u_i*v_i.
RECURSIVE twoUOf_noTieTerm(_, _, _, _)
twoUOf_noTieTerm(T, u, i, vsum) ==
    IF i > Len(u) THEN 0
    ELSE LET v_i == T[i] - u[i]
         IN  2 * vsum * u[i] + twoUOf_noTieTerm(T, u, i + 1, vsum + v_i)

\* The 2*U statistic of a u vector: twoU += 2*vsum*u_i + u_i*v_i.
RECURSIVE twoUOf(_, _, _, _)
twoUOf(T, u, i, vsum) ==
    IF i > Len(u) THEN 0
    ELSE LET v_i == T[i] - u[i]
         IN  2 * vsum * u[i] + u[i] * v_i + twoUOf(T, u, i + 1, vsum + v_i)

\* prod *= choose(d.T[i], u_i).
RECURSIVE prodChoose(_, _, _)
prodChoose(T, u, i) ==
    IF i > Len(u) THEN 1 ELSE choose(T[i], u[i]) * prodChoose(T, u, i + 1)

\* The carry loop without u[i] = 0.
RECURSIVE carry_noReset(_, _, _)
carry_noReset(T, u, i) ==
    IF i >= 1 /\ u[i] > T[i]
    THEN IF i = 1 THEN <<u, TRUE>>
         ELSE carry_noReset(T, [u EXCEPT ![i - 1] = u[i - 1] + 1], i - 1)
    ELSE <<u, FALSE>>

\* The carry loop: for i := len(u)-1; i >= 0 && u[i] > d.T[i]; i--.
\* Returns <<u, done>>; done when i == 0 is reached with u[0] > d.T[0].
RECURSIVE carry(_, _, _)
carry(T, u, i) ==
    IF i >= 1 /\ u[i] > T[i]
    THEN IF i = 1 THEN <<u, TRUE>>
         ELSE carry(T, [u EXCEPT ![i - 1] = u[i - 1] + 1, ![i] = 0], i - 1)
    ELSE <<u, FALSE>>

\* The loop body without the test sumint(u) != d.N1.
permStep_noSumTest(d, twoUthresh, cmp, st) ==
    IF st.done THEN st
    ELSE LET last == Len(st.u)
             c == carry(d.T, [st.u EXCEPT ![last] = st.u[last] + 1], last)
             twoU == twoUOf(d.T, c[1], 1, 0)
             skip == \/ cmp < 0 /\ twoU > twoUthresh
                     \/ cmp = 0 /\ twoU # twoUthresh
                     \/ cmp > 0 /\ twoU < twoUthresh
         IN  IF c[2] THEN [st EXCEPT !.done = TRUE]
             ELSE [u |-> c[1], done |-> FALSE,
                   count |-> IF skip THEN st.count
                             ELSE st.count + prodChoose(d.T, c[1], 1)]

\* One pass of the body of the for loop of permCount.  st is the loop's
\* state [u, count, done]; done is set by the return in the carry loop.
permStep(d, twoUthresh, cmp, st) ==
    IF st.done THEN st
    ELSE LET last == Len(st.u)
             c == carry(d.T, [st.u EXCEPT ![last] = st.u[last] + 1], last)
             twoU == twoUOf(d.T, c[1], 1, 0)
             skip == \/ sumint(c[1]) # d.N1
                     \/ cmp < 0 /\ twoU > twoUthresh
                     \/ cmp = 0 /\ twoU # twoUthresh
                     \/ cmp > 0 /\ twoU < twoUthresh
         IN  IF c[2] THEN [st EXCEPT !.done = TRUE]
             ELSE [u |-> c[1], done |-> FALSE,
                   count |-> IF skip THEN st.count
                             ELSE st.count + prodChoose(d.T, c[1], 1)]

\* k passes of the loop, in order (halved to keep evaluation shallow).
RECURSIVE permRun(_, _, _, _, _)
permRun(d, twoUthresh, cmp, st, k) ==
    IF k <= 1 THEN permStep(d, twoUthresh, cmp, st)
    ELSE LET half == permRun(d, twoUthresh, cmp, st, k \div 2)
         IN  Strict(half, permRun(d, twoUthresh, cmp, half, k - k \div 2))

\* for { ... }: passes of the loop until it returns.
RECURSIVE permLoop(_, _, _, _, _)
permLoop(d, twoUthresh, cmp, st, k) ==
    LET st2 == permRun(d, twoUthresh, cmp, st, k)
    IN  IF st2.done THEN st2 ELSE permLoop(d, twoUthresh, cmp, st2, 2 * k)

\* make([]int, n).
RECURSIVE zeros(_)
zeros(n) == IF n <= 0 THEN <<>> ELSE Append(zeros(n - 1), 0)

\* d.permCount(twoUthresh, cmp); d.T is not empty.  u starts as
\* make([]int, len(d.T)) with u[len(u)-1] = -1.
permCount(d, twoUthresh, cmp) ==
    permLoop(d, twoUthresh, cmp,
             [u |-> Append(zeros(Len(d.T) - 1), -1), count |-> 0, done |-> FALSE],
             1).count

\* d.permCount(twoUthresh, cmp) for any d.T: u[len(u)-1] = -1 panics with
\* an index out of range if d.T is empty.
permCountOrPanic(d, twoUthresh, cmp) ==
    IF Len(d.T) = 0 THEN [panic |-> TRUE, count |-> 0]
    ELSE [panic |-> FALSE, count |-> permCount(d, twoUthresh, cmp)]

\* d.p(U) for any U: make([]float64, U+1) panics if U < -1, and
\* memo[0][0] = 1 panics with an index out of range if U = -1.
pOrPanic(d, U) ==
    IF U < 0 THEN [panic |-> TRUE, pdfs |-> <<>>]
    ELSE [panic |-> FALSE, pdfs |-> p(d, U)]

\* PMF with the support cut at U >= N1*N2 in place of U >= 0.5 + N1*N2.
PMF_shortSupport(d, U) ==
    IF RLt(U, R(0)) \/ RLe(R(d.N1 * d.N2), U) THEN R(0)
    ELSE IF hasTies(d)
    THEN Rat(permCount(d, Trunc(RMul(R(2), U)), 0), choose(d.N1 + d.N2, d.N1))
    ELSE LET Ui == Floor(U) IN p(d, Ui)[Ui]

\* d.PMF(U).
PMF(d, U) ==
    IF RLt(U, R(0)) \/ RLe(RAdd(Rat(1, 2), R(d.N1 * d.N2)), U) THEN R(0)
    ELSE IF hasTies(d)
    THEN Rat(permCount(d, Trunc(RMul(R(2), U)), 0), choose(d.N1 + d.N2, d.N1))
    ELSE LET Ui == Floor(U) IN p(d, Ui)[Ui]

\* for _, pdf := range pdfs[:Ui+1] { p += pdf }.
RECURSIVE sumTo(_, _)
sumTo(pdfs, Ui) == IF Ui < 0 THEN R(0) ELSE RAdd(sumTo(pdfs, Ui - 1), pdfs[Ui])

\* The index mirrored without the -1.
flipIndex_offByOne(d, Uf) == d.N1 * d.N2 - Uf

\* Ui = d.N1*d.N2 - Ui - 1: the index of the mirrored tail.
flipIndex(d, Uf) == d.N1 * d.N2 - Uf - 1

\* CDF that sums the mirrored tail and does not complement it.
CDF_noComplement(d, U) ==
    IF RLt(U, R(0)) THEN R(0)
    ELSE IF RLe(R(d.N1 * d.N2), U) THEN R(1)
    ELSE IF hasTies(d)
    THEN Rat(permCount(d, Trunc(RMul(R(2), U)), -1), choose(d.N1 + d.N2, d.N1))
    ELSE LET Uf == Floor(U)
             flip == Uf >= (d.N1 * d.N2 + 1) \div 2
             Ui == IF flip THEN flipIndex(d, Uf) ELSE Uf
         IN  sumTo(p(d, Ui), Ui)

\* d.CDF(U).
CDF(d, U) ==
    IF RLt(U, R(0)) THEN R(0)
    ELSE IF RLe(R(d.N1 * d.N2), U) THEN R(1)
    ELSE IF hasTies(d)
    THEN Rat(permCount(d, Trunc(RMul(R(2), U)), -1), choose(d.N1 + d.N2, d.N1))
    ELSE LET Uf == Floor(U)
             flip == Uf >= (d.N1 * d.N2 + 1) \div 2
             Ui == IF flip THEN flipIndex(d, Uf) ELSE Uf
             s == sumTo(p(d, Ui), Ui)
         IN  IF flip THEN RSub(R(1), s) ELSE s

\* d.Step(): return 0.5.
Step(d) == Rat(1, 2)

\* d.Bounds(): return 0, float64(d.N1 * d.N2).
Bounds(d) == <<R(0), R(d.N1 * d.N2)>>

(***************************************************************************)
(* MannWhitneyUTest (src/stats/utest.go).                                  *)
(***************************************************************************)
\* The backing arrays that slices refer to: the caller's (x1 and x2 given to
\* MannWhitneyUTest, Xs of the Sample given to FromSample) and the ones the
\* functions allocate.  A slice is the name of its array; mem maps the
\* names to the contents.
Arrays == {"x1", "x2", "copy1", "copy2", "Xs", "copy"}

NoMem == [a \in Arrays |-> <<>>]

\* x = append([]float64(nil), x...): x becomes a slice of the new array
\* fresh, which holds the elements of the old one.
appendNil_alias(mem, x, fresh) == [mem |-> mem, slice |-> x]

appendNil(mem, x, fresh) ==
    [mem |-> [mem EXCEPT ![fresh] = mem[x]], slice |-> fresh]

\* The order sort.Float64s leaves the elements in: insertion of xs[k] into
\* the sorted prefix, for k = 1..len.
RECURSIVE insertSorted(_, _)
insertSorted(xs, v) ==
    IF xs = <<>> THEN <<v>>
    ELSE IF v < xs[1] THEN <<v>> \o xs
    ELSE <<xs[1]>> \o insertSorted(Tail(xs), v)

RECURSIVE Float64s(_)
Float64s(xs) ==
    IF xs = <<>> THEN <<>>
    ELSE insertSorted(Float64s(SubSeq(xs, 1, Len(xs) - 1)), xs[Len(xs)])

\* sort.Float64s(x): sorts the backing array of x in place.
sortFloat64s(mem, x) == [mem EXCEPT ![x] = Float64s(mem[x])]

\* labeledMerge(x1, x2) from positions i, j (0-based, as in the code).
RECURSIVE mergeFrom(_, _, _, _)
mergeFrom(x1, x2, i, j) ==
    IF i < Len(x1) /\ j < Len(x2)
    THEN IF x1[i + 1] < x2[j + 1]
         THEN LET rest == mergeFrom(x1, x2, i + 1, j)
              IN  [merged |-> <<x1[i + 1]>> \o rest.merged,
                   labels |-> <<1>> \o rest.labels]
         ELSE LET rest == mergeFrom(x1, x2, i, j + 1)
              IN  [merged |-> <<x2[j + 1]>> \o rest.merged,
                   labels |-> <<2>> \o rest.labels]
    ELSE IF i < Len(x1)
    THEN [merged |-> SubSeq(x1, i + 1, Len(x1)),
          labels |-> [k \in 1..(Len(x1) - i) |-> 1]]
    ELSE [merged |-> SubSeq(x2, j + 1, Len(x2)),
          labels |-> [k \in 1..(Len(x2) - j) |-> 2]]

labeledMerge(x1, x2) == mergeFrom(x1, x2, 0, 0)

\* for ; i < len(merged) && merged[i] == v1; i++ { if labels[i] == 1 { nx1++ } }
\* Returns <<i, nx1>> at the end of the run that starts at i.
RECURSIVE consumeTies(_, _, _, _, _)
consumeTies(merged, labels, v1, i, nx1) ==
    IF i < Len(merged) /\ merged[i + 1] = v1
    THEN consumeTies(merged, labels, v1, i + 1,
                     IF labels[i + 1] = 1 THEN nx1 + 1 ELSE nx1)
    ELSE <<i, nx1>>

\* The first rank of the run in place of the average.
averageRank_firstRank(i, rank1) == R(rank1)

\* rank := float64(i+rank1) / 2: the average rank of the run of ties that
\* starts at rank rank1 and ends before index i.
averageRank(i, rank1) == Rat(i + rank1, 2)

\* The ranking loop with T = append(T, i-rank1), one short of the run.
RECURSIVE rankLoop_shortRun(_, _, _, _)
rankLoop_shortRun(merged, labels, i, acc) ==
    IF i >= Len(merged) THEN acc
    ELSE LET rank1 == i + 1
             run == consumeTies(merged, labels, merged[i + 1], i, 0)
             i2 == run[1]
             nx1 == run[2]
             rank == averageRank(i2, rank1)
         IN  rankLoop_shortRun(merged, labels, i2,
                 [R1 |-> IF nx1 # 0 THEN RAdd(acc.R1, RMul(rank, R(nx1)))
                         ELSE acc.R1,
                  T |-> Append(acc.T, i2 - rank1),
                  hasTies |-> acc.hasTies \/ i2 > rank1])

\* The ranking loop: for i := 0; i < len(merged); { ... }.  acc is
\* [R1, T, hasTies].
RECURSIVE rankLoop(_, _, _, _)
rankLoop(merged, labels, i, acc) ==
    IF i >= Len(merged) THEN acc
    ELSE LET rank1 == i + 1
             run == consumeTies(merged, labels, merged[i + 1], i, 0)
             i2 == run[1]
             nx1 == run[2]
             rank == averageRank(i2, rank1)
         IN  rankLoop(merged, labels, i2,
                 [R1 |-> IF nx1 # 0 THEN RAdd(acc.R1, RMul(rank, R(nx1)))
                         ELSE acc.R1,
                  T |-> Append(acc.T, i2 - rank1 + 1),
                  hasTies |-> acc.hasTies \/ i2 > rank1])

\* for ; i < len(xs) && xs[i] == v1; i++ {}: the end of the run from i.
RECURSIVE runEnd(_, _, _)
runEnd(xs, v1, i) ==
    IF i < Len(xs) /\ xs[i + 1] = v1 THEN runEnd(xs, v1, i + 1) ELSE i

\* tieCorrection(xs) from position i with t so far.
RECURSIVE tieCorrectionFrom(_, _, _)
tieCorrectionFrom(xs, i, t) ==
    IF i >= Len(xs) THEN t
    ELSE LET run == runEnd(xs, xs[i + 1], i) - i
         IN  tieCorrectionFrom(xs, i + run, t + run * run * run - run)

tieCorrection(xs) == tieCorrectionFrom(xs, 0, 0)

\* The p-value of the normal approximation,
\*   z := numer / sigma_U;  p = 2 * math.Min(StdNormal.CDF(z), 1-StdNormal.CDF(z)),
\* with sigma_U = math.Sqrt(radicand).  StdNormal.CDF is the standard normal
\* Phi: strictly increasing, Phi(-z) = 1 - Phi(z), Phi(0) = 1/2, 0 < Phi < 1;
\* so p = 2*Phi(-|z|) is a strictly decreasing function of z*z with values
\* in (0, 1] and value 1 exactly at z = 0.  The value is kept as the term
\* [kind |-> "normal", zsq |-> z*z].
NormalP(numer, radicand) ==
    [kind |-> "normal", zsq |-> RDiv(RMul(numer, numer), radicand)]

\* A p-value computed exactly.
ExactP(v) == [kind |-> "exact", v |-> v]

Nil == [nil |-> TRUE]

\* return &MannWhitneyUTestResult{N1: n1, N2: n2, U: U1, P: p}, nil
Success(n1, n2, U1, P) ==
    [res |-> [N1 |-> n1, N2 |-> n2, U |-> U1, P |-> P], err |-> "nil"]

\* return nil, e
Failure(e) == [res |-> Nil, err |-> e]

\* The size check with && in place of ||.
sampleSizeError_bothEmpty(n1, n2) == n1 = 0 /\ n2 = 0

\* if n1 == 0 || n2 == 0 { return nil, ErrSampleSize }
sampleSizeError(n1, n2) == n1 = 0 \/ n2 = 0

\* The condition with MannWhitneyExactLimit used for tied samples too.
useExact_oneLimit(ties, n1, n2, ExactLimit, TiesExactLimit) ==
    n1 <= ExactLimit /\ n2 <= ExactLimit

\* The condition under which the exact U distribution is used.
useExact(ties, n1, n2, ExactLimit, TiesExactLimit) ==
    \/ ~ties /\ n1 <= ExactLimit /\ n2 <= ExactLimit
    \/ ties /\ n1 <= TiesExactLimit /\ n2 <= TiesExactLimit

\* The exact branch without the len(T) == 1 check.
exactTest_noEqualCheck(n1, n2, T, U1, U2) ==
    IF U1 = U2 THEN Success(n1, n2, U1, ExactP(R(1)))
    ELSE Success(n1, n2, U1, ExactP(RMul(CDF(UDist(n1, n2, T), U1), R(2))))

\* The branch that uses the exact U distribution.  The call site writes
\* UDist{M: n1, N: n2, T: T}; the struct of udist.go names the fields N1, N2
\* in this order.
exactTest(n1, n2, T, U1, U2) ==
    IF Len(T) = 1 THEN Failure("ErrSamplesEqual")
    ELSE IF U1 = U2 THEN Success(n1, n2, U1, ExactP(R(1)))
    ELSE Success(n1, n2, U1, ExactP(RMul(CDF(UDist(n1, n2, T), U1), R(2))))

\* The normal branch with the continuity correction of 0.5 subtracted
\* whatever the sign of numer.
normalTest_unsignedCorrection(n1, n2, merged, U1) ==
    LET t == R(tieCorrection(merged))
        N == R(n1 + n2)
        radicand == RDiv(RMul(R(n1 * n2),
                              RSub(RAdd(N, R(1)),
                                   RDiv(t, RMul(N, RSub(N, R(1)))))),
                         R(12))
        numer == RSub(RSub(U1, Rat(n1 * n2, 2)), Rat(1, 2))
    IN  IF radicand = R(0) THEN Failure("ErrSamplesEqual")
        ELSE Success(n1, n2, U1, NormalP(numer, radicand))

\* The branch that uses the normal approximation.  radicand is the
\* argument of math.Sqrt; sigma_U == 0 exactly when it is 0.
normalTest(n1, n2, merged, U1) ==
    LET t == R(tieCorrection(merged))
        N == R(n1 + n2)
        mu_U == Rat(n1 * n2, 2)
        radicand == RDiv(RMul(R(n1 * n2),
                              RSub(RAdd(N, R(1)),
                                   RDiv(t, RMul(N, RSub(N, R(1)))))),
                         R(12))
        numer0 == RSub(U1, mu_U)
        numer == RSub(numer0, RMul(R(sign(numer0)), Rat(1, 2)))
    IN  IF radicand = R(0) THEN Failure("ErrSamplesEqual")
        ELSE Success(n1, n2, U1, NormalP(numer, radicand))

\* The locals of MannWhitneyUTest before anything is computed.
NoLocals ==
    [path |-> "none", merged |-> <<>>, T |-> <<>>, hasTies |-> FALSE,
     U1 |-> R(0), U2 |-> R(0)]

\* The part of MannWhitneyUTest after the size check, for sorted copies s1
\* and s2: the merge, the ranking loop, U1 and U2, and the two branches.
rankAndTest(s1, s2, ExactLimit, TiesExactLimit) ==
    LET n1 == Len(s1)
        n2 == Len(s2)
        ml == labeledMerge(s1, s2)
        rk == rankLoop(ml.merged, ml.labels, 0,
                       [R1 |-> R(0), T |-> <<>>, hasTies |-> FALSE])
        Ua == RSub(rk.R1, Rat(n1 * (n1 + 1), 2))
        Ub == RSub(R(n1 * n2), Ua)
        U1 == IF RLt(Ub, Ua) THEN Ub ELSE Ua
        U2 == IF RLt(Ub, Ua) THEN Ua ELSE Ub
        exact == useExact(rk.hasTies, n1, n2, ExactLimit, TiesExactLimit)
    IN  (IF exact THEN exactTest(n1, n2, rk.T, U1, U2)
         ELSE normalTest(n1, n2, ml.merged, U1))
        @@ [loc |-> [path |-> IF exact THEN "exact" ELSE "normal",
                     merged |-> ml.merged, T |-> rk.T,
                     hasTies |-> rk.hasTies, U1 |-> U1, U2 |-> U2]]

\* MannWhitneyUTest(x1, x2) under the global limits.  Returns the pair
\* (res, err) and, for the properties below, loc: the values of the locals
\* merged, T, hasTies, U1, U2 at the return and the branch taken (path),
\* and mem: the backing arrays at the return, "x1" and "x2" being the
\* caller's.
MannWhitneyUTest(x1, x2, ExactLimit, TiesExactLimit) ==
    LET mem0 == [NoMem EXCEPT !["x1"] = x1, !["x2"] = x2]
    IN  IF sampleSizeError(Len(x1), Len(x2))
        THEN Failure("ErrSampleSize") @@ [loc |-> NoLocals, mem |-> mem0]
        ELSE LET c1 == appendNil(mem0, "x1", "copy1")
                 c2 == appendNil(c1.mem, "x2", "copy2")
                 mem1 == sortFloat64s(sortFloat64s(c2.mem, c1.slice),
                                      c2.slice)
             IN  rankAndTest(mem1[c1.slice], mem1[c2.slice],
                             ExactLimit, TiesExactLimit)
                 @@ [mem |-> mem1]

(***************************************************************************)
(* BinomialDist (src/stats/utest_test.go) and the NormalDist it is         *)
(* approximated by.                                                        *)
(***************************************************************************)
Half == Rat(1, 2)

\* math.Ceil followed by int().
Ceil(a) == -((-a[1]) \div a[2])

\* math.Pow(x, float64(e)) for an int e >= 0; math.Pow(0, 0) is 1.
RECURSIVE Pow(_, _)
Pow(x, e) == IF e = 0 THEN R(1) ELSE RMul(x, Pow(x, e - 1))

\* mathx.Choose(n, k) as a float64.
Choose(n, k) == R(choose(n, k))

\* BinomialDist{N: n, P: p}.
BinomialDist(n, prob) == [N |-> n, P |-> prob]

\* func (d BinomialDist) PMF(k float64) float64
BinomialPMF(dist, k) ==
    LET ki == Floor(k)
    IN  IF ki < 0 \/ ki > dist.N THEN R(0)
        ELSE RMul(Choose(dist.N, ki),
                  RMul(Pow(dist.P, ki), Pow(RSub(R(1), dist.P), dist.N - ki)))

\* func (d BinomialDist) Mean() float64
Mean(dist) == RMul(R(dist.N), dist.P)

\* func (d BinomialDist) Variance() float64
Variance(dist) == RMul(Mean(dist), RSub(R(1), dist.P))

\* math.Sqrt on the rationals that have a rational square root.
IsSquare(k) == \E a \in 0..k : a * a = k
ISqrt(k) == CHOOSE a \in 0..k : a * a = k
HasSqrt(v) == IsSquare(v[1]) /\ IsSquare(v[2])
Sqrt(v) == Rat(ISqrt(v[1]), ISqrt(v[2]))

\* func (d BinomialDist) NormalApprox() NormalDist
NormalApprox(dist) == [Mu |-> Mean(dist), Sigma |-> Sqrt(Variance(dist))]

\* The standard normal CDF at z = j/24, j = 0..80, in units of 1/10000.
PhiTable ==
    <<5000, 5166, 5332, 5497, 5662, 5825, 5987, 6147, 6306, 6462,
      6616, 6766, 6915, 7059, 7202, 7340, 7475, 7606, 7734, 7857,
      7977, 8092, 8203, 8311, 8413, 8512, 8607, 8697, 8783, 8866,
      8944, 9018, 9088, 9154, 9217, 9276, 9332, 9384, 9433, 9479,
      9522, 9562, 9599, 9634, 9666, 9696, 9724, 9749, 9772, 9794,
      9814, 9832, 9849, 9864, 9878, 9890, 9902, 9912, 9922, 9930,
      9938, 9945, 9951, 9957, 9962, 9966, 9970, 9974, 9977, 9980,
      9982, 9985, 9987, 9988, 9990, 9991, 9992, 9993, 9994, 9995,
      9996>>

PhiStep == 6 * 4

\* The standard normal CDF: linear between the points of PhiTable, 1 above
\* the last one (the float64 value saturates there too, further out), and
\* 1 - Phi(-z) below 0.  It is monotone, and strictly increasing on the
\* range of the table.
PhiUpper(z) ==
    LET s == RMul(R(PhiStep), z)
        j == Floor(s)
    IN  IF j >= Len(PhiTable) - 1
        THEN IF s = R(Len(PhiTable) - 1)
             THEN Rat(PhiTable[Len(PhiTable)], 10000)
             ELSE R(1)
        ELSE RDiv(RAdd(R(PhiTable[j + 1]),
                       RMul(RSub(s, R(j)),
                            R(PhiTable[j + 2] - PhiTable[j + 1]))),
                  R(10000))

StdCDF(z) ==
    IF RLt(z, R(0)) THEN RSub(R(1), PhiUpper(RSub(R(0), z))) ELSE PhiUpper(z)

\* The inverse of PhiUpper at prob, 1/2 <= prob <= the last point of PhiTable.
InvPhiUpper(prob) ==
    LET u == RMul(R(10000), prob)
        j == CHOOSE k \in 0..(Len(PhiTable) - 2) :
                 /\ RLe(R(PhiTable[k + 1]), u)
                 /\ RLt(u, R(PhiTable[k + 2])) \/ k = Len(PhiTable) - 2
    IN  RDiv(RAdd(R(j), RDiv(RSub(u, R(PhiTable[j + 1])),
                             R(PhiTable[j + 2] - PhiTable[j + 1]))),
             R(PhiStep))

StdInvCDF(prob) ==
    IF RLt(prob, Half) THEN RSub(R(0), InvPhiUpper(RSub(R(1), prob)))
    ELSE InvPhiUpper(prob)

\* func (n NormalDist) CDF(x float64) float64.  With Sigma == 0 all the
\* mass is at Mu.
NormalCDF(norm, x) ==
    IF norm.Sigma = R(0)
    THEN IF RLt(x, norm.Mu) THEN R(0) ELSE R(1)
    ELSE StdCDF(RDiv(RSub(x, norm.Mu), norm.Sigma))

\* func (n NormalDist) InvCDF(p float64) float64, 0 < p < 1.
NormalInvCDF(norm, prob) ==
    RAdd(norm.Mu, RMul(norm.Sigma, StdInvCDF(prob)))

(***************************************************************************)
(* QuantileCI (src/stats/quantileci.go).                                   *)
(***************************************************************************)
\* A QuantileCIResult.
QuantileCIResult(q, n, confidence, l, r, ambiguous) ==
    [Quantile |-> q, N |-> n, Confidence |-> confidence,
     LoOrder |-> l, HiOrder |-> r, Ambiguous |-> ambiguous]

\* The start without the - 1.
mode_oneAbove(samp) ==
    IF samp.P = R(0) THEN 0
    ELSE Ceil(RMul(R(samp.N + 1), samp.P))

\* x := int(math.Ceil(float64(samp.N+1)*samp.P) - 1)
\* if samp.P == 0 { x = 0 }
mode(samp) ==
    IF samp.P = R(0) THEN 0
    ELSE Ceil(RMul(R(samp.N + 1), samp.P)) - 1

\* The locals of the exact path before the loop: accum, [l, r), lp, rp and
\* res.Ambiguous.
startAtMode(samp) ==
    LET x == mode(samp)
        accum == BinomialPMF(samp, R(x))
        rp == BinomialPMF(samp, R(x + 1))
    IN  [accum |-> accum, l |-> x, r |-> x + 1,
         lp |-> BinomialPMF(samp, R(x - 1)), rp |-> rp,
         Ambiguous |-> rp = accum]

\* accum < confidence && (lp > 0 || rp > 0)
moreToAccumulate_oneShort(st, confidence) ==
    /\ RLt(RAdd(st.accum, IF RLe(st.rp, st.lp) THEN st.lp ELSE st.rp),
           confidence)
    /\ (RLt(R(0), st.lp) \/ RLt(R(0), st.rp))

moreToAccumulate(st, confidence) ==
    /\ RLt(st.accum, confidence)
    /\ (RLt(R(0), st.lp) \/ RLt(R(0), st.rp))

\* if lp >= rp { // Left-bias
takeLeft_rightBias(st) == RLt(st.rp, st.lp)

takeLeft(st) == RLe(st.rp, st.lp)

\* The loop body with r moved past two buckets.
extend_skipRight(samp, st) ==
    IF takeLeft(st)
    THEN [accum |-> RAdd(st.accum, st.lp), l |-> st.l - 1, r |-> st.r,
          lp |-> BinomialPMF(samp, R(st.l - 2)), rp |-> st.rp,
          Ambiguous |-> st.lp = st.rp]
    ELSE [accum |-> RAdd(st.accum, st.rp), l |-> st.l, r |-> st.r + 2,
          lp |-> st.lp, rp |-> BinomialPMF(samp, R(st.r + 2)),
          Ambiguous |-> st.lp = st.rp]

\* The loop body without lp = samp.PMF(float64(l - 1)).
extend_staleLp(samp, st) ==
    IF takeLeft(st)
    THEN [accum |-> RAdd(st.accum, st.lp), l |-> st.l - 1, r |-> st.r,
          lp |-> st.lp, rp |-> st.rp,
          Ambiguous |-> st.lp = st.rp]
    ELSE [accum |-> RAdd(st.accum, st.rp), l |-> st.l, r |-> st.r + 1,
          lp |-> st.lp, rp |-> BinomialPMF(samp, R(st.r + 1)),
          Ambiguous |-> st.lp = st.rp]

\* One pass of the loop body.
extend(samp, st) ==
    IF takeLeft(st)
    THEN [accum |-> RAdd(st.accum, st.lp), l |-> st.l - 1, r |-> st.r,
          lp |-> BinomialPMF(samp, R(st.l - 2)), rp |-> st.rp,
          Ambiguous |-> st.lp = st.rp]
    ELSE [accum |-> RAdd(st.accum, st.rp), l |-> st.l, r |-> st.r + 1,
          lp |-> st.lp, rp |-> BinomialPMF(samp, R(st.r + 1)),
          Ambiguous |-> st.lp = st.rp]

\* for accum < confidence && (lp > 0 || rp > 0) { ... }
RECURSIVE accumulate(_, _, _)
accumulate(samp, confidence, st) ==
    IF moreToAccumulate(st, confidence)
    THEN accumulate(samp, confidence, extend(samp, st))
    ELSE st

\* The exact path: l, r, res.Confidence and res.Ambiguous at its end.
exactInterval(samp, confidence) ==
    LET st == accumulate(samp, confidence, startAtMode(samp))
    IN  [l |-> st.l, r |-> st.r, Confidence |-> st.accum,
         Ambiguous |-> st.Ambiguous]

\* floorInt := func(x float64) int { return int(math.Floor(x)) }
floorInt(x) == Floor(x)

\* cdf := func(l, r int) float64 {
\*     return norm.CDF(float64(r)-0.5) - norm.CDF(float64(l)-0.5) }
cdf(norm, l, r) ==
    RSub(NormalCDF(norm, RSub(R(r), Half)), NormalCDF(norm, RSub(R(l), Half)))

\* if aBiased := cdf(l, rBiased); aBiased >= confidence && aBiased < res.Confidence
takeBiased_always(aBiased, confidence, unbiased) == RLt(aBiased, unbiased)

takeBiased(aBiased, confidence, unbiased) ==
    RLe(confidence, aBiased) /\ RLt(aBiased, unbiased)

\* The normal-approximation path: l, r, res.Confidence and res.Ambiguous
\* at its end.
normalInterval(samp, n, confidence) ==
    LET norm == NormalApprox(samp)
        alpha == RDiv(RSub(R(1), confidence), R(2))
        l1 == NormalInvCDF(norm, alpha)
        r1 == RSub(RMul(R(2), norm.Mu), l1)
        l == floorInt(RAdd(R(Floor(RSub(l1, Half))), Half)) + 1
        r0 == floorInt(RAdd(R(Ceil(RSub(r1, Half))), Half)) + 1
        unbiased == cdf(norm, l, r0)
        rBiased == r0 - 1
        aBiased == cdf(norm, l, rBiased)
        biased == takeBiased(aBiased, confidence, unbiased)
        r == IF biased THEN rBiased ELSE r0
    IN  IF l <= 0 /\ r >= n + 1
        THEN [l |-> l, r |-> r, Confidence |-> R(1), Ambiguous |-> FALSE]
        ELSE [l |-> l, r |-> r,
              Confidence |-> IF biased THEN aBiased ELSE unbiased,
              Ambiguous |-> biased]

\* if l < 0 { l = 0 }; if r > n+1 { r = n + 1 }
clampLo_none(l) == l

clampLo(l) == IF l < 0 THEN 0 ELSE l

clampHi(r, n) == IF r > n + 1 THEN n + 1 ELSE r

\* if confidence >= 1 { res.Confidence = 1; res.LoOrder = 0
\*     res.HiOrder = n + 1; return res }
fullRange_lastOrder(q, n) == QuantileCIResult(q, n, R(1), 0, n, FALSE)

fullRange(q, n) == QuantileCIResult(q, n, R(1), 0, n + 1, FALSE)

\* func QuantileCI(n int, q, confidence float64) QuantileCIResult, under
\* the value threshold of quantileCIApproxThreshold.
QuantileCI(n, q, confidence, threshold) ==
    IF RLe(R(1), confidence)
    THEN fullRange(q, n)
    ELSE LET samp == BinomialDist(n, q)
             iv == IF samp.N <= threshold
                   THEN exactInterval(samp, confidence)
                   ELSE normalInterval(samp, n, confidence)
         IN  QuantileCIResult(q, n, iv.Confidence, clampLo(iv.l),
                              clampHi(iv.r, n), iv.Ambiguous)

\* A float64 that may be infinite: inf is -1, 0 or 1.
Inf(sgn) == [inf |-> sgn, v |-> R(0)]

Finite(v) == [inf |-> 0, v |-> v]

\* Sample.Copy(): the same sample over a new backing array.
SampleCopy(mem, s, fresh) ==
    [mem |-> [mem EXCEPT ![fresh] = mem[s.Xs]], s |-> [s EXCEPT !.Xs = fresh]]

\* Sample.Sort(): sorts Xs in place and sets Sorted.
SampleSort(mem, s) ==
    [mem |-> sortFloat64s(mem, s.Xs), s |-> [s EXCEPT !.Sorted = TRUE]]

\* What FromSample returns when it panics.
Panic(why, mem) ==
    [panic |-> why, lo |-> Finite(R(0)), hi |-> Finite(R(0)), mem |-> mem]

\* if s.Weights != nil { panic(...) }
\* if len(s.Xs) != q.N { panic(...) }
checkSample_sizeUnchecked(q, weights, len) ==
    IF weights # "nil" THEN "weighted" ELSE "none"

checkSample(q, weights, len) ==
    IF weights # "nil" THEN "weighted"
    ELSE IF len # q.N THEN "size"
    ELSE "none"

\* func (q QuantileCIResult) FromSample(s Sample) (lo, hi float64), for the
\* sample [Xs |-> xs, Weights |-> weights, Sorted |-> sorted] of the caller.
\* Returns lo and hi, or the panic, and mem: the backing arrays at the
\* return, "Xs" being the caller's.
FromSample(q, xs, weights, sorted) ==
    LET mem0 == [NoMem EXCEPT !["Xs"] = xs]
        s0 == [Xs |-> "Xs", Weights |-> weights, Sorted |-> sorted]
        failed == checkSample(q, s0.Weights, Len(mem0[s0.Xs]))
    IN  IF failed # "none" THEN Panic(failed, mem0)
        ELSE LET c == IF ~s0.Sorted
                      THEN LET cp == SampleCopy(mem0, s0, "copy")
                           IN  SampleSort(cp.mem, cp.s)
                      ELSE [mem |-> mem0, s |-> s0]
                 Xs == c.mem[c.s.Xs]
             IN  IF q.LoOrder >= 1 /\ q.LoOrder - 1 >= Len(Xs)
                 THEN Panic("index", c.mem)
                 ELSE IF q.HiOrder - 1 < 0 THEN Panic("index", c.mem)
                 ELSE [panic |-> "none",
                       lo |-> IF q.LoOrder < 1 THEN Inf(-1)
                              ELSE Finite(R(Xs[q.LoOrder])),
                       hi |-> IF q.HiOrder - 1 >= Len(Xs) THEN Inf(1)
                              ELSE Finite(R(Xs[q.HiOrder])),
                       mem |-> c.mem]

(***************************************************************************)
(* NodeMarks (src/graph/graphalg/marks.go).  A NodeMarks is a record       *)
(* [marks]; the slice marks is the record [len, ones] of its length in     *)
(* words and the set of its bits that are 1, bit b of word w being named   *)
(* by bitOf(w, b).                                                         *)
(***************************************************************************)
\* Bit b of the word marks[w].
bitOf(w, b) == w * WordBits + b

\* make([]uint32, k)
makeWords(k) == [len |-> k, ones |-> {}]

\* return &NodeMarks{make([]uint32, 1024/32)}
NewNodeMarks == [marks |-> makeWords(InitialBits \div WordBits)]

\* func (m NodeMarks) Test(i int) bool
Test(m, i) ==
    IF i < 0 \/ i \div WordBits >= m.marks.len THEN FALSE
    ELSE bitOf(i \div WordBits, i % WordBits) \in m.marks.ones

\* k := 1; for k > n { k <<= 1 }
RECURSIVE roundUp(_, _)
roundUp(k, n) == IF k > n THEN roundUp(2 * k, n) ELSE k

\* func (m *NodeMarks) grow(i int); copy(marks, m.marks) copies as many
\* words as the shorter of the two holds.
grow(m, i) ==
    LET n == i \div WordBits + 1
        k == roundUp(1, n)
    IN  [marks |-> [len |-> k,
                    ones |-> {x \in m.marks.ones :
                                  x \div WordBits < Min(k, m.marks.len)}]]

\* func (m *NodeMarks) Mark(i int): m after the call, and the fault if the
\* indexing of m.marks panics.
Mark(m, i) ==
    LET m1 == IF i \div WordBits >= m.marks.len THEN grow(m, i) ELSE m
        w == i \div WordBits
    IN  IF w >= m1.marks.len THEN [m |-> m1, fault |-> "index"]
        ELSE [m |-> [marks |-> [m1.marks EXCEPT
                                    !.ones = @ \cup {bitOf(w, i % WordBits)}]],
              fault |-> "none"]

\* func (m *NodeMarks) Unmark(i int)
Unmark(m, i) ==
    IF i \div WordBits >= m.marks.len THEN [m |-> m, fault |-> "none"]
    ELSE [m |-> [marks |-> [m.marks EXCEPT
                                !.ones = @ \ {bitOf(i \div WordBits,
                                                    i % WordBits)}]],
          fault |-> "none"]

(***************************************************************************)
(* SCC (src/graph/graphalg/scc.go).  A graph is a function from its node   *)
(* ids 0..NumNodes-1 to the sequences g.Out(nid); Go slices indexed from 0 *)
(* are functions on 0..len-1 (low, subnodeComponent) or sequences whose    *)
(* element k + 1 is the Go element k (stack, out, subnodes, the indexes).  *)
(* flags is the set of the SCCFlags that are set.                          *)
(***************************************************************************)
\* g.NumNodes()
NumNodes(graph) == Cardinality(DOMAIN graph)

\* ^uint(0), the low of a processed node: above every index.  index stays
\* below NumNodes + 2, so the width of uint plays no part.
Processed == 2147483647

\* if flags&SCCEdges != 0 { flags |= SCCSubnodeComponent }
withImplied(flags) ==
    IF "SCCEdges" \in flags THEN flags \cup {"SCCSubnodeComponent"} ELSE flags

\* The state of SCC before the first connect.
sccStart(graph, flags) ==
    [low |-> [nid \in DOMAIN graph |-> 0],
     stack |-> <<>>,
     index |-> 1,
     out |-> <<>>,
     subnodes |-> <<>>,
     subnodeIndexes |-> <<>>,
     subnodeComponent |->
         IF "SCCSubnodeComponent" \in flags
         THEN [nid \in DOMAIN graph |-> 0] ELSE <<>>,
     sccsOut |-> <<>>,
     outIndexes |-> <<>>]

\* sort.Ints
Ints(xs) == Float64s(xs)

\* The dedup loop: sccs.out[j] is kept if it is the first or differs from
\* the last one kept.
RECURSIVE dedup_keepAll(_, _)
dedup_keepAll(kept, xs) ==
    IF xs = <<>> THEN kept ELSE dedup_keepAll(Append(kept, xs[1]), Tail(xs))

RECURSIVE dedup(_, _)
dedup(kept, xs) ==
    IF xs = <<>> THEN kept
    ELSE IF kept = <<>> \/ kept[Len(kept)] # xs[1]
         THEN dedup(Append(kept, xs[1]), Tail(xs))
         ELSE dedup(kept, Tail(xs))

\* for i = len(out) - 1; i >= 0; i-- { if out[i].stackLen < len(stack)
\* { break }; ... }; i++: the number of out-edges that stay on out.
RECURSIVE outKept(_, _, _)
outKept(out, i, stackLen) ==
    IF i < 1 THEN 0
    ELSE IF out[i].stackLen < stackLen THEN i
    ELSE outKept(out, i - 1, stackLen)

\* The cids popped off out, from the top down.
RECURSIVE outPopped(_, _, _)
outPopped(out, i, keep) ==
    IF i <= keep THEN <<>>
    ELSE <<out[i].cid>> \o outPopped(out, i - 1, keep)

\* for i = len(stack) - 1; i >= 0; i-- { ...; if oid == nid { break } }:
\* the Go index at which the loop stops, -1 if nid is not on the stack.
RECURSIVE rootPos(_, _, _)
rootPos(stack, i, nid) ==
    IF i < 0 THEN 0 - 1
    ELSE IF stack[i + 1] = nid THEN i
    ELSE rootPos(stack, i - 1, nid)

\* Node nid is the root of an SCC: pop the stack to construct the
\* component and collect its out-edges.
popComponent(st, nid, flags) ==
    LET cid == Len(st.subnodeIndexes)
        i == rootPos(st.stack, Len(st.stack) - 1, nid)
        popped == {st.stack[k] : k \in (i + 1)..Len(st.stack)}
        stack1 == SubSeq(st.stack, 1, i)
        keep == outKept(st.out, Len(st.out), Len(stack1))
        edges == dedup(<<>>, Ints(outPopped(st.out, Len(st.out), keep)))
        s1 == [st EXCEPT
                 !.low = [o \in DOMAIN @ |->
                              IF o \in popped THEN Processed ELSE @[o]],
                 !.subnodeComponent =
                     IF "SCCSubnodeComponent" \in flags
                     THEN [o \in DOMAIN @ |->
                               IF o \in popped THEN cid ELSE @[o]]
                     ELSE @,
                 !.subnodeIndexes = Append(@, Len(st.subnodes)),
                 !.subnodes = @ \o SubSeq(st.stack, i + 1, Len(st.stack)),
                 !.stack = stack1]
    IN  IF "SCCEdges" \in flags
        THEN [s1 EXCEPT !.outIndexes = Append(@, Len(st.sccsOut)),
                        !.out = SubSeq(@, 1, keep),
                        !.sccsOut = @ \o edges]
        ELSE s1

\* if low[oid] < min { min = low[oid] }
newMin(low, min) == IF low < min THEN low ELSE min

\* The one element of a singleton set.  {e(x) : x \in {v}} is the set of
\* e at the value of v, computed once.
Only(set) == CHOOSE x \in set : TRUE

RECURSIVE connect(_, _, _, _), successors(_, _, _, _, _, _, _),
          afterConnect(_, _, _, _, _, _, _, _)

\* The body of the loop over g.Out(nid) after the successor oid has been
\* connected: st is the state then.
afterConnect(graph, flags, st, nid, stackPos, min, k, oid) ==
    LET st1 == IF "SCCEdges" \in flags /\ st.low[oid] = Processed
               THEN [st EXCEPT !.out =
                         Append(@, [cid |-> st.subnodeComponent[oid],
                                    stackLen |-> stackPos])]
               ELSE st
    IN  Only({successors(graph, flags, s1, nid, stackPos,
                         newMin(st.low[oid], min), k + 1) : s1 \in {st1}})

\* for _, oid := range g.Out(nid), from the k-th successor on: the state
\* and min after the loop.
successors(graph, flags, st, nid, stackPos, min, k) ==
    IF k > Len(graph[nid]) THEN [st |-> st, min |-> min]
    ELSE LET oid == graph[nid][k]
         IN  Only({afterConnect(graph, flags, s1, nid, stackPos, min, k, oid) :
                       s1 \in {IF st.low[oid] = 0
                               THEN connect(graph, flags, st, oid) ELSE st}})

\* The rest of connect once the successors are processed.
connectEnd(r, nid, flags) ==
    IF r.min < r.st.low[nid]
    THEN [r.st EXCEPT !.low[nid] = r.min]
    ELSE popComponent(r.st, nid, flags)

\* connect = func(nid int)
connect(graph, flags, st, nid) ==
    Only({connectEnd(r, nid, flags) :
              r \in {successors(graph, flags,
                                [st EXCEPT !.low[nid] = st.index,
                                           !.index = st.index + 1,
                                           !.stack = Append(@, nid)],
                                nid, Len(st.stack), st.index, 1)}})

\* for nid := range low { if low[nid] == 0 { connect(nid) } }
RECURSIVE connectAll(_, _, _, _)
connectAll(graph, flags, st, nid) ==
    IF nid >= NumNodes(graph) THEN st
    ELSE Only({connectAll(graph, flags, s1, nid + 1) :
                   s1 \in {IF st.low[nid] = 0
                           THEN connect(graph, flags, st, nid) ELSE st}})

\* The SCCGraph made from the final state; a slice that was never
\* appended to or made is nil.
sccGraphOf(st, flags) ==
    [subnodes |-> st.subnodes,
     subnodeIndexes |-> Append(st.subnodeIndexes, Len(st.subnodes)),
     subnodeComponent |-> st.subnodeComponent,
     out |-> st.sccsOut,
     outIndexes |-> IF "SCCEdges" \in flags
                    THEN Append(st.outIndexes, Len(st.sccsOut)) ELSE <<>>]

\* func SCC(g graph.Graph, flags SCCFlags) *SCCGraph
SCC(graph, flags) ==
    Only({sccGraphOf(st, withImplied(flags)) :
              st \in {connectAll(graph, withImplied(flags),
                                 sccStart(graph, withImplied(flags)), 0)}})

\* func (g *SCCGraph) NumNodes() int
SCCNumNodes(sg) == Len(sg.subnodeIndexes) - 1

\* func (g *SCCGraph) Subnodes(cid int) []int
Subnodes(sg, cid) ==
    SubSeq(sg.subnodes, sg.subnodeIndexes[cid + 1] + 1,
           sg.subnodeIndexes[cid + 2])

\* func (g *SCCGraph) SubnodeComponent(subID int) (componentID int)
SubnodeComponent(sg, subID) == sg.subnodeComponent[subID]

\* func (g *SCCGraph) Out(cid int) []int; nil if g.out is nil.
Out(sg, cid) ==
    IF sg.out = <<>> THEN <<>>
    ELSE SubSeq(sg.out, sg.outIndexes[cid + 1] + 1, sg.outIndexes[cid + 2])

(***************************************************************************)
(* The state machine: a caller that sets the package's globals and calls   *)
(* MannWhitneyUTest, the methods of UDist, QuantileCI and FromSample.      *)
(***************************************************************************)
VARIABLES
    MannWhitneyExactLimit,      \* the global of that name
    MannWhitneyTiesExactLimit,  \* the global of that name
    pc,                         \* "idle", or "returned" after a call
    call,                       \* the function called last
    x1, x2,                     \* the caller's slices given to MannWhitneyUTest
    res, err,                   \* what MannWhitneyUTest returned
    loc,                        \* its locals at the return
    d, U,                       \* receiver and argument of UDist.CDF / PMF
    ret,                        \* what CDF / PMF returned
    mem,                        \* the backing arrays after the call
    quantileCIApproxThreshold,  \* the global of that name
    ciArgs,                     \* n, q and confidence given to QuantileCI
    ci,                         \* the QuantileCIResult it returned
    sample,                     \* the caller's Sample given to FromSample
    bounds,                     \* lo and hi it returned, or its panic
    nodeMarks,                  \* the caller's *NodeMarks
    lastOp,                     \* per node id, the last of Mark and Unmark
    fault,                      \* the panic of a call on nodeMarks
    gArg,                       \* the graph g given to SCC
    flagsArg,                   \* the flags given to SCC
    sccs                        \* the SCCGraph it returned

\* The variables of the calls on a NodeMarks.
marksVars == <<nodeMarks, lastOp, fault>>

\* The variables of the calls of SCC.
sccVars == <<gArg, flagsArg, sccs>>

\* The variables of the calls of QuantileCI and FromSample.
qciVars == <<ciArgs, ci, sample, bounds>>

\* The variables of the calls of MannWhitneyUTest and UDist.
utestVars == <<x1, x2, res, err, loc, d, U, ret>>

vars == <<MannWhitneyExactLimit, MannWhitneyTiesExactLimit, pc, call,
          x1, x2, res, err, loc, d, U, ret, mem,
          quantileCIApproxThreshold, ciArgs, ci, sample, bounds,
          nodeMarks, lastOp, fault, gArg, flagsArg, sccs>>

\* Slices of values 1..MaxVal of length n.
SamplesOf(n) == [1..n -> 1..MaxVal]

\* The pairs of samples handed to MannWhitneyUTest: of total size up to
\* MaxTotal, and a sample of size up to MaxSelf with itself.
SamplePairs ==
    UNION {SamplesOf(n[1]) \X SamplesOf(n[2]) :
               n \in {m \in (0..MaxTotal) \X (0..MaxTotal) :
                          m[1] + m[2] <= MaxTotal}}
    \cup {<<s, s>> : s \in UNION {SamplesOf(n) : n \in 0..MaxSelf}}

\* Values a caller sets the limits to: the defaults and a small one.
ExactLimits == {SmallLimit, DefaultExactLimit}
TiesExactLimits == {SmallLimit, DefaultTiesExactLimit}

\* Tie vectors: the sequences of positive integers that sum to n.
RECURSIVE TieVectors(_)
TieVectors(n) ==
    IF n = 0 THEN {<<>>}
    ELSE UNION {{<<k>> \o t : t \in TieVectors(n - k)} : k \in 1..n}

\* The distributions handed to CDF and PMF: untied with a nil T, and with
\* a tie vector T, Sum(T) == N1+N2.
UDists ==
    {UDist(n1, n2, <<>>) : n1 \in 0..MaxN, n2 \in 0..MaxN}
    \cup UNION {{UDist(n1, n2, t) : t \in TieVectors(n1 + n2)} :
                    n1 \in 0..MaxTiedN, n2 \in 1..MaxTiedN}

\* The arguments U handed to CDF and PMF of d: the multiples of 1/4 from
\* -1 to N1*N2 + 3/4.
UArgs(dist) == {Rat(k, 4) : k \in (-4)..(4 * dist.N1 * dist.N2 + 3)}

\* The sizes n handed to QuantileCI: up to MaxQN, and one above the
\* default threshold whose normal approximations have a rational Sigma.
LargeN == 6 * 6
QNs == (0..MaxQN) \cup {LargeN}

\* The quantiles q and the confidence levels handed to QuantileCI.
Quantiles == {R(0), Rat(1, 5), Rat(1, 4), Half, Rat(3, 4), Rat(4, 5), R(1)}
Confidences ==
    {R(0), Rat(1, 1000), Rat(1, 10), Rat(3, 10), Rat(5, 16), Rat(3, 8),
     Rat(47, 125), Half, Rat(7, 10), Rat(9, 10), Rat(19, 20), Rat(99, 100),
     R(1), Rat(3, 2)}

\* Values quantileCIApproxThreshold is set to: as the tests do, and the
\* default.
ApproxThresholds == {0, DefaultApproxThreshold}

\* The samples handed to FromSample on a result for size n: Xs of values
\* 1..MaxX, of length n or one off and up to MaxSampleLen, Sorted set only
\* on sorted ones; the ones of length n with Weights; and one unsorted
\* sample of length LargeN.
Samples(n) ==
    LET XsOf(k) == [1..k -> 1..MaxX]
        lens == {n - 1, n, n + 1} \cap (0..MaxSampleLen)
    IN  {s \in {[Xs |-> xs, Weights |-> "nil", Sorted |-> b] :
                    xs \in UNION {XsOf(k) : k \in lens}, b \in BOOLEAN} :
             s.Sorted => Float64s(s.Xs) = s.Xs}
        \cup {[Xs |-> xs, Weights |-> "weights", Sorted |-> FALSE] :
                  xs \in UNION {XsOf(k) : k \in lens \cap {n}}}
        \cup {[Xs |-> [k \in 1..n |-> 1 + ((n - k) % MaxX)],
               Weights |-> "nil", Sorted |-> FALSE] : m \in {n} \cap {LargeN}}

NoArgs == [n |-> 0, q |-> R(0), confidence |-> R(0)]
NoResult == QuantileCIResult(R(0), 0, R(0), 0, 0, FALSE)
NoSample == [Xs |-> <<>>, Weights |-> "nil", Sorted |-> FALSE]
NoBounds == [panic |-> "none", lo |-> Finite(R(0)), hi |-> Finite(R(0))]

\* No graph and no SCCGraph: the caller has not called SCC.
NoGraph == <<>>
NoSCCs == [subnodes |-> <<>>, subnodeIndexes |-> <<>>,
           subnodeComponent |-> <<>>, out |-> <<>>, outIndexes |-> <<>>]
NoFlags == {}

NoCall ==
    /\ call = "none"
    /\ x1 = <<>> /\ x2 = <<>>
    /\ res = Nil /\ err = "nil" /\ loc = NoLocals
    /\ d = UDist(0, 0, <<>>) /\ U = R(0) /\ ret = R(0)
    /\ mem = NoMem
    /\ ciArgs = NoArgs /\ ci = NoResult
    /\ sample = NoSample /\ bounds = NoBounds
    /\ gArg = NoGraph /\ flagsArg = NoFlags /\ sccs = NoSCCs

\* The graphs given to SCC: up to MaxNodes nodes, every set of successors
\* for every node, g.Out(nid) listing them in ascending order.
OutLists(k) ==
    {xs \in UNION {[1..len -> 0..(k - 1)] : len \in 0..k} :
         \A i \in 1..(Len(xs) - 1) : xs[i] < xs[i + 1]}

Graphs == UNION {[0..(k - 1) -> OutLists(k)] : k \in 0..MaxNodes}

\* The flags given to SCC.
FlagSets == SUBSET {"SCCSubnodeComponent", "SCCEdges"}

\* The node ids the caller marks: some of the first words and the ids
\* around the 1024 marks NewNodeMarks makes room for.
NodeIds == {0, 1, 31, 32} \cup {InitialBits - 1 + k : k \in 0..MaxBeyond}

\* No Mark or Unmark yet on any node.
NoOps == [i \in NodeIds |-> "none"]

Init ==
    /\ MannWhitneyExactLimit = DefaultExactLimit
    /\ MannWhitneyTiesExactLimit = DefaultTiesExactLimit
    /\ quantileCIApproxThreshold = DefaultApproxThreshold
    /\ pc = "idle"
    /\ NoCall
    /\ nodeMarks = NewNodeMarks
    /\ lastOp = NoOps
    /\ fault = "none"

\* MannWhitneyExactLimit = l.
SetExactLimit(l) ==
    /\ pc = "idle"
    /\ MannWhitneyExactLimit' = l
    /\ UNCHANGED <<MannWhitneyTiesExactLimit, pc, call, utestVars, mem,
                   quantileCIApproxThreshold, qciVars,
                   marksVars, sccVars>>

\* MannWhitneyTiesExactLimit = l.
SetTiesExactLimit(l) ==
    /\ pc = "idle"
    /\ MannWhitneyTiesExactLimit' = l
    /\ UNCHANGED <<MannWhitneyExactLimit, pc, call, utestVars, mem,
                   quantileCIApproxThreshold, qciVars,
                   marksVars, sccVars>>

\* res, err = MannWhitneyUTest(a, b).  x1 and x2 keep the slices as the
\* caller handed them over; mem holds the backing arrays at the return.
CallMannWhitneyUTest(a, b) ==
    /\ pc = "idle"
    /\ \E r \in {MannWhitneyUTest(a, b, MannWhitneyExactLimit,
                                  MannWhitneyTiesExactLimit)} :
           /\ res' = r.res
           /\ err' = r.err
           /\ loc' = r.loc
           /\ mem' = r.mem
    /\ x1' = a
    /\ x2' = b
    /\ call' = "MannWhitneyUTest"
    /\ pc' = "returned"
    /\ UNCHANGED <<MannWhitneyExactLimit, MannWhitneyTiesExactLimit, d, U, ret,
                   quantileCIApproxThreshold, qciVars,
                   marksVars, sccVars>>

\* ret = dist.CDF(u).
CallCDF(dist, u) ==
    /\ pc = "idle"
    /\ d' = dist
    /\ U' = u
    /\ ret' = CDF(dist, u)
    /\ call' = "CDF"
    /\ pc' = "returned"
    /\ UNCHANGED <<MannWhitneyExactLimit, MannWhitneyTiesExactLimit,
                   x1, x2, res, err, loc, mem,
                   quantileCIApproxThreshold, qciVars,
                   marksVars, sccVars>>

\* ret = dist.PMF(u).
CallPMF(dist, u) ==
    /\ pc = "idle"
    /\ d' = dist
    /\ U' = u
    /\ ret' = PMF(dist, u)
    /\ call' = "PMF"
    /\ pc' = "returned"
    /\ UNCHANGED <<MannWhitneyExactLimit, MannWhitneyTiesExactLimit,
                   x1, x2, res, err, loc, mem,
                   quantileCIApproxThreshold, qciVars,
                   marksVars, sccVars>>

\* ret = dist.Step().
CallStep(dist) ==
    /\ pc = "idle"
    /\ d' = dist
    /\ U' = R(0)
    /\ ret' = Step(dist)
    /\ call' = "Step"
    /\ pc' = "returned"
    /\ UNCHANGED <<MannWhitneyExactLimit, MannWhitneyTiesExactLimit,
                   x1, x2, res, err, loc, mem,
                   quantileCIApproxThreshold, qciVars,
                   marksVars, sccVars>>

\* quantileCIApproxThreshold = t.
SetApproxThreshold(t) ==
    /\ pc = "idle"
    /\ quantileCIApproxThreshold' = t
    /\ UNCHANGED <<MannWhitneyExactLimit, MannWhitneyTiesExactLimit, pc, call,
                   utestVars, mem, qciVars,
                   marksVars, sccVars>>

\* Whether the model has the float64 values QuantileCI(n, q, confidence)
\* computes: on the normal path, Sigma of the approximation is rational.
Representable(n, q, confidence, threshold) ==
    \/ RLe(R(1), confidence)
    \/ n <= threshold
    \/ HasSqrt(Variance(BinomialDist(n, q)))

\* ci = QuantileCI(n, q, confidence).
CallQuantileCI(n, q, confidence) ==
    /\ pc = "idle"
    /\ Representable(n, q, confidence, quantileCIApproxThreshold)
    /\ ciArgs' = [n |-> n, q |-> q, confidence |-> confidence]
    /\ ci' = QuantileCI(n, q, confidence, quantileCIApproxThreshold)
    /\ call' = "QuantileCI"
    /\ pc' = "returned"
    /\ UNCHANGED <<MannWhitneyExactLimit, MannWhitneyTiesExactLimit,
                   utestVars, mem, quantileCIApproxThreshold, sample, bounds,
                   marksVars, sccVars>>

\* lo, hi = ci.FromSample(s), on the result QuantileCI just returned.
\* sample keeps s as the caller handed it over; mem holds the backing
\* arrays at the return.
CallFromSample(s) ==
    /\ pc = "returned"
    /\ call = "QuantileCI"
    /\ \E r \in {FromSample(ci, s.Xs, s.Weights, s.Sorted)} :
           /\ bounds' = [panic |-> r.panic, lo |-> r.lo, hi |-> r.hi]
           /\ mem' = r.mem
    /\ sample' = s
    /\ call' = "FromSample"
    /\ UNCHANGED <<MannWhitneyExactLimit, MannWhitneyTiesExactLimit, pc,
                   utestVars, quantileCIApproxThreshold, ciArgs, ci,
                   marksVars, sccVars>>

\* sccs = SCC(g, flags).
CallSCC(graph, flags) ==
    /\ pc = "idle"
    /\ gArg' = graph
    /\ flagsArg' = flags
    /\ sccs' = SCC(graph, flags)
    /\ call' = "SCC"
    /\ pc' = "returned"
    /\ UNCHANGED <<MannWhitneyExactLimit, MannWhitneyTiesExactLimit,
                   utestVars, mem, quantileCIApproxThreshold, qciVars,
                   marksVars>>

\* nodeMarks = NewNodeMarks().
CallNewNodeMarks ==
    /\ pc = "idle"
    /\ nodeMarks' = NewNodeMarks
    /\ lastOp' = NoOps
    /\ fault' = "none"
    /\ UNCHANGED <<MannWhitneyExactLimit, MannWhitneyTiesExactLimit, pc, call,
                   utestVars, mem, quantileCIApproxThreshold, qciVars,
                   sccVars>>

\* nodeMarks.Mark(i).  A panic ends the use of nodeMarks.
CallMark(i) ==
    /\ pc = "idle"
    /\ fault = "none"
    /\ \E r \in {Mark(nodeMarks, i)} :
           /\ nodeMarks' = r.m
           /\ fault' = r.fault
    /\ lastOp' = [lastOp EXCEPT ![i] = "Mark"]
    /\ UNCHANGED <<MannWhitneyExactLimit, MannWhitneyTiesExactLimit, pc, call,
                   utestVars, mem, quantileCIApproxThreshold, qciVars,
                   sccVars>>

\* nodeMarks.Unmark(i).
CallUnmark(i) ==
    /\ pc = "idle"
    /\ fault = "none"
    /\ \E r \in {Unmark(nodeMarks, i)} :
           /\ nodeMarks' = r.m
           /\ fault' = r.fault
    /\ lastOp' = [lastOp EXCEPT ![i] = "Unmark"]
    /\ UNCHANGED <<MannWhitneyExactLimit, MannWhitneyTiesExactLimit, pc, call,
                   utestVars, mem, quantileCIApproxThreshold, qciVars,
                   sccVars>>

\* The caller drops the results; the globals stay as set.
Return ==
    /\ pc = "returned"
    /\ pc' = "idle"
    /\ call' = "none"
    /\ x1' = <<>> /\ x2' = <<>>
    /\ res' = Nil /\ err' = "nil" /\ loc' = NoLocals
    /\ d' = UDist(0, 0, <<>>) /\ U' = R(0) /\ ret' = R(0)
    /\ mem' = NoMem
    /\ ciArgs' = NoArgs /\ ci' = NoResult
    /\ sample' = NoSample /\ bounds' = NoBounds
    /\ gArg' = NoGraph /\ flagsArg' = NoFlags /\ sccs' = NoSCCs
    /\ UNCHANGED <<MannWhitneyExactLimit, MannWhitneyTiesExactLimit,
                   quantileCIApproxThreshold, marksVars>>

Next ==
    \/ \E l \in ExactLimits : SetExactLimit(l)
    \/ \E l \in TiesExactLimits : SetTiesExactLimit(l)
    \/ \E ab \in SamplePairs : CallMannWhitneyUTest(ab[1], ab[2])
    \/ \E dist \in UDists : \E u \in UArgs(dist) : CallCDF(dist, u)
    \/ \E dist \in UDists : \E u \in UArgs(dist) : CallPMF(dist, u)
    \/ \E dist \in UDists : CallStep(dist)
    \/ \E t \in ApproxThresholds : SetApproxThreshold(t)
    \/ \E n \in QNs : \E q \in Quantiles : \E c \in Confidences :
           CallQuantileCI(n, q, c)
    \/ \E s \in Samples(ci.N) : CallFromSample(s)
    \/ CallNewNodeMarks
    \/ \E i \in NodeIds : CallMark(i)
    \/ \E i \in NodeIds : CallUnmark(i)
    \/ /\ pc = "idle"
       /\ \E graph \in Graphs : \E flags \in FlagSets : CallSCC(graph, flags)
    \/ Return

Spec == Init /\ [][Next]_vars

\* The caller that only sets the limits and calls MannWhitneyUTest.
NextUTest ==
    \/ \E l \in ExactLimits : SetExactLimit(l)
    \/ \E l \in TiesExactLimits : SetTiesExactLimit(l)
    \/ \E ab \in SamplePairs : CallMannWhitneyUTest(ab[1], ab[2])
    \/ Return

SpecUTest == Init /\ [][NextUTest]_vars

\* The caller that only uses UDist.
NextUDist ==
    \/ \E dist \in UDists : \E u \in UArgs(dist) : CallCDF(dist, u)
    \/ \E dist \in UDists : \E u \in UArgs(dist) : CallPMF(dist, u)
    \/ \E dist \in UDists : CallStep(dist)
    \/ Return

SpecUDist == Init /\ [][NextUDist]_vars

\* The caller that only uses QuantileCI and FromSample.
NextQuantileCI ==
    \/ \E t \in ApproxThresholds : SetApproxThreshold(t)
    \/ \E n \in QNs : \E q \in Quantiles : \E c \in Confidences :
           CallQuantileCI(n, q, c)
    \/ \E s \in Samples(ci.N) : CallFromSample(s)
    \/ Return

SpecQuantileCI == Init /\ [][NextQuantileCI]_vars

\* The caller that hands slices and samples to MannWhitneyUTest and
\* FromSample under the default globals.
NextCaller ==
    \/ \E ab \in SamplePairs : CallMannWhitneyUTest(ab[1], ab[2])
    \/ \E n \in QNs : \E q \in Quantiles : \E c \in Confidences :
           CallQuantileCI(n, q, c)
    \/ \E s \in Samples(ci.N) : CallFromSample(s)
    \/ Return

SpecCaller == Init /\ [][NextCaller]_vars

\* The caller that only uses a NodeMarks.
NextMarks ==
    \/ CallNewNodeMarks
    \/ \E i \in NodeIds : CallMark(i)
    \/ \E i \in NodeIds : CallUnmark(i)

SpecMarks == Init /\ [][NextMarks]_vars

\* The caller that only calls SCC.
NextSCC ==
    \/ /\ pc = "idle"
       /\ \E graph \in Graphs : \E flags \in FlagSets : CallSCC(graph, flags)
    \/ Return

SpecSCC == Init /\ [][NextSCC]_vars

(***************************************************************************)
(* Properties.                                                             *)
(***************************************************************************)

\* The call of f has returned and the caller still holds the results.
Returned(f) == pc = "returned" /\ call = f

\* A p-value lies in [0, 1].  A normal-approximation value 2*Phi(-|z|)
\* always does.
PInUnit(P) ==
    IF P.kind = "exact" THEN RLe(R(0), P.v) /\ RLe(P.v, R(1)) ELSE TRUE

\* A p-value is exactly 1: for the normal approximation, exactly when z = 0.
PIsOne(P) == IF P.kind = "exact" THEN P.v = R(1) ELSE P.zsq = R(0)

\* The samples of the call that has returned, as one sequence.
Pooled == x1 \o x2

\* Some value occurs twice in the pooled sample.
TiesIn(xs) == \E i, j \in DOMAIN xs : i # j /\ xs[i] = xs[j]

\* All values of the sequence are the same.
AllEqual(xs) == \A i, j \in DOMAIN xs : xs[i] = xs[j]

\* Twice A, for A = #{(a, b) : a < b} + 1/2 #{(a, b) : a = b} over a in xs,
\* b in ys.
TwiceA(xs, ys) ==
    2 * Cardinality({ij \in (DOMAIN xs) \X (DOMAIN ys) : xs[ij[1]] < ys[ij[2]]})
    + Cardinality({ij \in (DOMAIN xs) \X (DOMAIN ys) : xs[ij[1]] = ys[ij[2]]})

\* min(A, N1*N2 - A) of the two samples.
MinU(xs, ys) ==
    Rat(Min(TwiceA(xs, ys), 2 * Len(xs) * Len(ys) - TwiceA(xs, ys)), 2)

\* C1: every successful MannWhitneyUTest reports a p-value P with
\* 0 <= P <= 1, on the exact path with ties included.
C1_PInUnitInterval ==
    (Returned("MannWhitneyUTest") /\ err = "nil") => PInUnit(res.P)

\* C2: MannWhitneyUTest(x1, x2) and MannWhitneyUTest(x2, x1) either both fail
\* with the same error or both succeed with the same U and the same P.
C2_SwapSymmetric ==
    Returned("MannWhitneyUTest") =>
        \A o \in {MannWhitneyUTest(x2, x1, MannWhitneyExactLimit,
                                   MannWhitneyTiesExactLimit)} :
            /\ err = o.err
            /\ err = "nil" => res.U = o.res.U /\ res.P = o.res.P

C4_SamplesEqualIffAllEqual ==
    Returned("MannWhitneyUTest") =>
        /\ err = "ErrSamplesEqual" <=>
               (x1 # <<>> /\ x2 # <<>> /\ AllEqual(Pooled))
        /\ err = "ErrSamplesEqual" => res = Nil

\* All-equal samples of three values that took the normal-approximation
\* path.
C4_Witness ==
    /\ Returned("MannWhitneyUTest") /\ err = "ErrSamplesEqual"
    /\ loc.path = "normal"
    /\ Len(Pooled) >= 3

\* C5: with x1 or x2 empty MannWhitneyUTest fails with ErrSampleSize and a
\* nil result before any ranking work; no failure returns a non-nil result.
C5_EmptySampleFails ==
    Returned("MannWhitneyUTest") =>
        /\ (x1 = <<>> \/ x2 = <<>>) =>
               err = "ErrSampleSize" /\ res = Nil /\ loc = NoLocals
        /\ err = "ErrSampleSize" => (x1 = <<>> \/ x2 = <<>>)
        /\ err # "nil" => res = Nil

\* A call with x1 empty and x2 not.
C5_Witness ==
    /\ Returned("MannWhitneyUTest") /\ err = "ErrSampleSize"
    /\ x1 = <<>> /\ x2 # <<>>

\* C6: for a sample s that is not constant MannWhitneyUTest(s, s) succeeds
\* with U = N^2/2 and P = 1, on the exact path and on the
\* normal-approximation path.
C6_SelfTest ==
    (Returned("MannWhitneyUTest") /\ x1 = x2 /\ ~AllEqual(x1)) =>
        /\ err = "nil"
        /\ res.U = Rat(Len(x1) * Len(x1), 2)
        /\ PIsOne(res.P)

\* A sample of three values, not all the same, against itself on the
\* normal-approximation path.
C6_Witness ==
    /\ Returned("MannWhitneyUTest") /\ x1 = x2 /\ ~AllEqual(x1)
    /\ Len(x1) = 3
    /\ loc.path = "normal"
    /\ err = "nil"

\* The sizes of the tie groups of xs in ascending order of value, for the
\* set V of values still to place.
RECURSIVE TieVectorOver(_, _)
TieVectorOver(xs, V) ==
    IF V = {} THEN <<>>
    ELSE LET v == CHOOSE w \in V : \A z \in V : w <= z
         IN  <<Cardinality({i \in DOMAIN xs : xs[i] = v})>>
             \o TieVectorOver(xs, V \ {v})

\* The tie vector of the pooled sample xs.
TieVectorOf(xs) == TieVectorOver(xs, {xs[i] : i \in DOMAIN xs})

\* The condition of C7 for the exact path.
ExactExpected ==
    \/ /\ ~TiesIn(Pooled)
       /\ Len(x1) <= MannWhitneyExactLimit
       /\ Len(x2) <= MannWhitneyExactLimit
    \/ /\ TiesIn(Pooled)
       /\ Len(x1) <= MannWhitneyTiesExactLimit
       /\ Len(x2) <= MannWhitneyTiesExactLimit

RECURSIVE SumOver(_, _)
SumOver(f, S) ==
    IF S = {} THEN 0
    ELSE LET e == CHOOSE z \in S : TRUE IN f[e] + SumOver(f, S \ {e})

\* Twice the average rank of each of the positions 1..Sum(T) of a pooled
\* sample with tie vector T: the positions of one tie group share the mean
\* of the ranks they occupy.
RECURSIVE TwiceRanksFrom(_, _, _)
TwiceRanksFrom(T, g, first) ==
    IF g > Len(T) THEN <<>>
    ELSE [j \in 1..T[g] |-> first + (first + T[g] - 1)]
         \o TwiceRanksFrom(T, g + 1, first + T[g])

\* Twice the ranks for a distribution: 2, 4, ..., 2(N1+N2) without ties.
TwiceRanks(dist) ==
    IF dist.T = <<>> THEN [j \in 1..(dist.N1 + dist.N2) |-> 2 * j]
    ELSE TwiceRanksFrom(dist.T, 1, 1)

\* Twice the U statistic of each way to label N1 of the N1+N2 pooled
\* positions as the first sample: 2 * (sum of ranks - N1(N1+1)/2).
TwiceUOfLabelings(dist) ==
    LET r == TwiceRanks(dist)
    IN  [S \in {L \in SUBSET (1..(dist.N1 + dist.N2)) :
                    Cardinality(L) = dist.N1}
            |-> SumOver(r, S) - dist.N1 * (dist.N1 + 1)]

\* The fraction of the labelings whose statistic satisfies
\* 2U <= twoU (le) or 2U = twoU (~le).
LabelingFraction(dist, twoU, le) ==
    LET tu == TwiceUOfLabelings(dist)
    IN  Rat(Cardinality({S \in DOMAIN tu :
                             IF le THEN tu[S] <= twoU ELSE tu[S] = twoU}),
            Cardinality(DOMAIN tu))

\* U is an integer.
IsInteger(u) == u[2] = 1

\* U is a multiple of 1/2 in [0, N1*N2].
IsHalfStepInRange(dist, u) ==
    /\ RMul(R(2), u)[2] = 1
    /\ RLe(R(0), u)
    /\ RLe(u, R(dist.N1 * dist.N2))

\* The published tables of the tests, in millionths:
\* udist3[U+1][m] is CDF(U) of UDist{N: 3, M: m}, udist5 that of N: 5.
udist3 ==
    << <<250000, 100000, 50000>>,
       <<500000, 200000, 100000>>,
       <<750000, 400000, 200000>>,
       <<1000000, 600000, 350000>>,
       <<1000000, 800000, 500000>>,
       <<1000000, 900000, 650000>> >>

udist5 ==
    << <<166667, 47619, 17857, 7937, 3968>>,
       <<333333, 95238, 35714, 15873, 7937>>,
       <<500000, 190476, 71429, 31746, 15873>>,
       <<666667, 285714, 125000, 55556, 27778>>,
       <<833333, 428571, 196429, 95238, 47619>>,
       <<1000000, 571429, 285714, 142857, 75397>> >>

\* aeq(a, b) of the tests against a table entry in millionths:
\* |a - b| < 0.000001.
aeq(v, millionths) ==
    RLt(RSub(v, Rat(millionths, 1000000)), Rat(1, 1000000))
    /\ RLt(RSub(Rat(millionths, 1000000), v), Rat(1, 1000000))

\* The value v of CDF(u) of dist agrees with the table for N when dist
\* and u are among the table's cases.
MatchesTable(table, N, dist, u, v) ==
    /\ (dist.N1 = N /\ dist.N2 \in 1..N /\ IsInteger(u) /\ u[1] \in 0..5) =>
           aeq(v, table[u[1] + 1][dist.N2])
    /\ (dist.N2 = N /\ dist.N1 \in 1..N /\ IsInteger(u) /\ u[1] \in 0..5) =>
           aeq(v, table[u[1] + 1][dist.N1])

\* C8: without ties CDF(U) for every integer U is the number of
\* N1-subsets of the ranks 1..N1+N2 whose statistic is <= U divided by
\* C(N1+N2, N1), in both tails; it reproduces the published tables for
\* N = 3 and N = 5 at U = 0..5 to six decimals.
C8_UntiedCDFCounts ==
    (Returned("CDF") /\ d.T = <<>> /\ IsInteger(U)) =>
        /\ ret = LabelingFraction(d, 2 * U[1], TRUE)
        /\ MatchesTable(udist3, 3, d, U, ret)
        /\ MatchesTable(udist5, 5, d, U, ret)

\* CDF in the upper tail (past the midpoint, below N1*N2) of UDist{5, 5},
\* and a case of the N = 5 table.
C8_Witness ==
    /\ Returned("CDF") /\ d.T = <<>> /\ IsInteger(U)
    /\ d.N1 = 5 /\ d.N2 = 5
    /\ U[1] \in {5, 20}
    /\ RLt(R(0), ret) /\ RLt(ret, R(1))

\* C9: with ties (Sum(T) = N1+N2, some T[i] > 1), for every multiple U of
\* 1/2 in [0, N1*N2], PMF(U) and CDF(U) are the number of ways to label N1
\* of the pooled observations as sample 1 whose average-rank statistic
\* U1 = (sum of ranks) - N1(N1+1)/2 is = U, respectively <= U, divided by
\* C(N1+N2, N1).
C9_TiedCounts ==
    (pc = "returned" /\ call \in {"CDF", "PMF"}
         /\ \E g \in DOMAIN d.T : d.T[g] > 1
         /\ IsHalfStepInRange(d, U)) =>
        ret = LabelingFraction(d, RMul(R(2), U)[1], call = "CDF")

\* PMF at a U that is not an integer and has positive mass, with ties.
C9_Witness ==
    /\ Returned("PMF")
    /\ \E g \in DOMAIN d.T : d.T[g] > 1
    /\ IsHalfStepInRange(d, U) /\ ~IsInteger(U)
    /\ d.N1 = 2 /\ d.N2 = 2
    /\ RLt(R(0), ret)

\* PMF(0) + PMF(1) + ... + PMF(upto) of dist.
RECURSIVE SumPMF(_, _)
SumPMF(dist, upto) ==
    IF upto < 0 THEN R(0)
    ELSE RAdd(SumPMF(dist, upto - 1), PMF(dist, R(upto)))

\* C10: without ties and N1, N2 <= 50, the PMF sums to 1 over
\* U = 0..N1*N2.
C10_PMFSumsToOne ==
    (Returned("PMF") /\ d.T = <<>> /\ U = R(d.N1 * d.N2)) =>
        RAdd(SumPMF(d, d.N1 * d.N2 - 1), ret) = R(1)

\* The last term of the sum for two samples of at least two values.
C10_Witness ==
    /\ Returned("PMF") /\ d.T = <<>> /\ U = R(d.N1 * d.N2)
    /\ d.N1 >= 2 /\ d.N2 >= 3
    /\ RLt(R(0), ret) /\ RLt(ret, R(1))

\* The step between two neighbouring arguments of UArgs.
QuarterStep == Rat(1, 4)

\* C11: CDF is non-decreasing in U, 0 for every U < 0 and 1 for every
\* U >= N1*N2, with and without ties.  Over the arguments of UArgs, which
\* are QuarterStep apart, non-decreasing is: the value at U is at most the
\* value at the next argument.
C11_CDFMonotone ==
    Returned("CDF") =>
        /\ RLe(ret, CDF(d, RAdd(U, QuarterStep)))
        /\ RLt(U, R(0)) => ret = R(0)
        /\ RLe(R(d.N1 * d.N2), U) => ret = R(1)
        /\ RLe(R(0), ret) /\ RLe(ret, R(1))

\* CDF of a tied distribution strictly between 0 and 1 at an argument that
\* is not an integer, with a larger value at the next half step.
C11_Witness ==
    /\ Returned("CDF")
    /\ \E g \in DOMAIN d.T : d.T[g] > 1
    /\ ~IsInteger(U)
    /\ RLt(R(0), ret) /\ RLt(ret, R(1))
    /\ RLt(ret, CDF(d, RAdd(U, Rat(1, 2))))

\* The distribution has no ties: T is nil or every T[i] is 1.
Untied(dist) == \A g \in DOMAIN dist.T : dist.T[g] = 1

\* C12: Step() is 1 when the distribution has no ties (T nil or every
\* T[i] = 1) and 0.5 when some T[i] > 1.
C12_StepByTies ==
    Returned("Step") => ret = IF Untied(d) THEN R(1) ELSE Rat(1, 2)

\* The sum of PMF over the defined points 0, Step(), ..., k*Step() of dist.
RECURSIVE SumPMFPoints(_, _)
SumPMFPoints(dist, k) ==
    IF k < 0 THEN R(0)
    ELSE RAdd(SumPMFPoints(dist, k - 1), PMF(dist, RMul(R(k), Step(dist))))

\* The largest natural k with k*Step() <= x, and -1 for x < 0.
LastPoint(dist, x) ==
    IF RLt(x, R(0)) THEN -1 ELSE Floor(RDiv(x, Step(dist)))

\* C13: CDF(x) is the sum of PMF over the defined points k*Step() <= x,
\* k a natural number, with and without ties; the PMF over the defined
\* points within Bounds() sums to 1.
C13_CDFIsSumOfPMF ==
    Returned("CDF") =>
        /\ ret = SumPMFPoints(d, LastPoint(d, U))
        /\ SumPMFPoints(d, LastPoint(d, Bounds(d)[2])) = R(1)

\* The same for the distributions with ties only, where Step() is the
\* spacing of the points that carry mass.
C13_TiedCDFIsSumOfPMF ==
    (Returned("CDF") /\ ~Untied(d)) =>
        /\ ret = SumPMFPoints(d, LastPoint(d, U))
        /\ SumPMFPoints(d, LastPoint(d, Bounds(d)[2])) = R(1)

\* C14: the tie vector T built by MannWhitneyUTest has one entry per
\* maximal run of equal values of the merged samples, in ascending order of
\* value; every entry is >= 1, the entries sum to N1+N2, and hasTies is
\* true exactly when some entry is > 1.
C14_TieVector ==
    (Returned("MannWhitneyUTest") /\ x1 # <<>> /\ x2 # <<>>) =>
        /\ loc.T = TieVectorOf(Pooled)
        /\ \A g \in DOMAIN loc.T : loc.T[g] >= 1
        /\ SumOver(loc.T, DOMAIN loc.T) = Len(x1) + Len(x2)
        /\ loc.hasTies <=> \E g \in DOMAIN loc.T : loc.T[g] > 1
        /\ loc.hasTies <=> TiesIn(Pooled)
        /\ ~loc.hasTies <=> \A g \in DOMAIN loc.T : loc.T[g] = 1

\* Unsorted samples whose tie vector has a run of ties between two single
\* values.
C14_Witness ==
    /\ Returned("MannWhitneyUTest")
    /\ Len(loc.T) = 3
    /\ loc.T[1] = 1 /\ loc.T[2] > 1 /\ loc.T[3] = 1
    /\ x1 # Float64s(x1)

\* ---- QuantileCI and FromSample ----

\* Whether xs is in the order sort.Float64s leaves it in.
IsSorted(xs) == \A i \in 1..(Len(xs) - 1) : xs[i] <= xs[i + 1]

\* C15: MannWhitneyUTest leaves the caller's slices x1 and x2 as they were
\* (same elements, same order) whatever it returns, and FromSample leaves
\* the caller's sample as it was (the order of Xs; the Sorted flag is the
\* caller's own copy of the struct), also when the sample is unsorted:
\* sorting happens on private copies only.
C15_CallerUnchanged ==
    /\ Returned("MannWhitneyUTest") => mem["x1"] = x1 /\ mem["x2"] = x2
    /\ Returned("FromSample") => mem["Xs"] = sample.Xs

\* FromSample has sorted a copy of an unsorted sample.
C15_Witness ==
    /\ Returned("FromSample")
    /\ bounds.panic = "none"
    /\ ~sample.Sorted /\ ~IsSorted(sample.Xs)
    /\ IsSorted(mem["copy"]) /\ Len(mem["copy"]) = Len(sample.Xs)

\* MannWhitneyUTest has sorted copies of two unsorted slices.
C15_WitnessUTest ==
    /\ Returned("MannWhitneyUTest")
    /\ err = "nil"
    /\ ~IsSorted(x1) /\ ~IsSorted(x2)
    /\ IsSorted(mem["copy1"]) /\ IsSorted(mem["copy2"])

\* The call of QuantileCI that returned took the shortcut, the exact path
\* or the normal-approximation path.
Shortcut == RLe(R(1), ciArgs.confidence)
ExactPath == ~Shortcut /\ ciArgs.n <= quantileCIApproxThreshold
NormalPath == ~Shortcut /\ ciArgs.n > quantileCIApproxThreshold

\* The binomial mass of the order statistics l..r-1: the sum of
\* BinomialDist{n, q}.PMF(k) for k in [l, r).
RECURSIVE BinomialMass(_, _, _)
BinomialMass(samp, l, r) ==
    IF l >= r THEN R(0)
    ELSE RAdd(BinomialPMF(samp, R(l)), BinomialMass(samp, l + 1, r))

C16_WitnessNormal ==
    /\ Returned("QuantileCI") /\ NormalPath
    /\ ciArgs.n = LargeN /\ quantileCIApproxThreshold = DefaultApproxThreshold
    /\ RLt(R(0), ciArgs.confidence)
    /\ RLt(ciArgs.confidence, ci.Confidence) /\ RLt(ci.Confidence, R(1))

\* C17: every result of QuantileCI(n, q, confidence), n >= 0 and q in
\* [0,1], has 0 <= LoOrder <= HiOrder <= n+1, whether it comes from the
\* confidence >= 1 shortcut, the exact path or the normal path.
C17_OrderBounds ==
    Returned("QuantileCI") =>
        /\ 0 <= ci.LoOrder
        /\ ci.LoOrder <= ci.HiOrder
        /\ ci.HiOrder <= ciArgs.n + 1

\* The normal path has computed an l below 0 and the result has LoOrder 0.
C17_Witness ==
    /\ Returned("QuantileCI") /\ NormalPath
    /\ normalInterval(BinomialDist(ciArgs.n, ciArgs.q), ciArgs.n,
                      ciArgs.confidence).l < 0
    /\ ci.LoOrder = 0 /\ ci.HiOrder <= ciArgs.n

\* The exact path has returned an interval that reaches both ends.
C17_WitnessExact ==
    /\ Returned("QuantileCI") /\ ExactPath
    /\ ciArgs.n = MaxQN
    /\ ci.LoOrder = 0 /\ ci.HiOrder = ciArgs.n + 1

\* C18: for every n and q, QuantileCI(n, q, confidence) with
\* confidence >= 1 returns LoOrder = 0, HiOrder = n+1, Confidence = 1 and
\* Ambiguous = false, whatever q and quantileCIApproxThreshold are.
C18_FullRangeAtOne ==
    (Returned("QuantileCI") /\ RLe(R(1), ciArgs.confidence)) =>
        /\ ci.LoOrder = 0
        /\ ci.HiOrder = ciArgs.n + 1
        /\ ci.Confidence = R(1)
        /\ ~ci.Ambiguous
        /\ \A t \in ApproxThresholds : \A q \in Quantiles :
               LET r == QuantileCI(ciArgs.n, q, ciArgs.confidence, t)
               IN  /\ r.LoOrder = ci.LoOrder /\ r.HiOrder = ci.HiOrder
                   /\ r.Confidence = ci.Confidence
                   /\ r.Ambiguous = ci.Ambiguous

\* QuantileCI has returned for a confidence above 1, a q strictly inside
\* (0,1) and an n above the threshold.
C18_Witness ==
    /\ Returned("QuantileCI")
    /\ RLt(R(1), ciArgs.confidence)
    /\ ciArgs.q = Rat(1, 4)
    /\ ciArgs.n = LargeN /\ quantileCIApproxThreshold = DefaultApproxThreshold
    /\ ci.HiOrder = LargeN + 1

\* The confidence QuantileCI computes for the order statistics [l, r) on
\* the path it took: the binomial mass on the exact path, cdf(l, r) of the
\* normal approximation on the normal path.
ConfidenceOf(l, r) ==
    LET samp == BinomialDist(ciArgs.n, ciArgs.q)
    IN  IF ExactPath THEN BinomialMass(samp, l, r)
        ELSE cdf(NormalApprox(samp), l, r)

\* C19: whenever QuantileCI returns Ambiguous = true, the interval shifted
\* up by one, LoOrder+1 to HiOrder+1, has the same confidence as the
\* returned one; on the exact path, the sum of PMF(k) for k in
\* [LoOrder+1, HiOrder] equals the sum for k in [LoOrder, HiOrder-1].
C19_AmbiguousShift ==
    (Returned("QuantileCI") /\ ci.Ambiguous) =>
        ConfidenceOf(ci.LoOrder + 1, ci.HiOrder + 1)
            = ConfidenceOf(ci.LoOrder, ci.HiOrder)

\* The same on the exact path alone.
C19_ExactAmbiguousShift ==
    (Returned("QuantileCI") /\ ci.Ambiguous /\ ExactPath) =>
        /\ ConfidenceOf(ci.LoOrder + 1, ci.HiOrder + 1) = ci.Confidence
        /\ ConfidenceOf(ci.LoOrder, ci.HiOrder) = ci.Confidence

\* The exact path has returned an ambiguous interval after extending it.
C19_ExactWitness ==
    /\ Returned("QuantileCI") /\ ci.Ambiguous /\ ExactPath
    /\ ci.HiOrder - ci.LoOrder >= 2
    /\ RLt(ci.Confidence, R(1))

\* The normal path, under the default threshold, has returned an ambiguous
\* interval whose shift has a lower confidence.
C19_NormalAmbiguousDiffers ==
    /\ Returned("QuantileCI") /\ ci.Ambiguous /\ NormalPath
    /\ quantileCIApproxThreshold = DefaultApproxThreshold
    /\ ciArgs.q = Rat(1, 5) /\ ciArgs.confidence = Rat(1, 10)
    /\ ci.LoOrder = 7 /\ ci.HiOrder = 8
    /\ ConfidenceOf(ci.LoOrder, ci.HiOrder) = ci.Confidence
    /\ RLt(ConfidenceOf(ci.LoOrder + 1, ci.HiOrder + 1), ci.Confidence)

\* The locals of the exact path at the head of each pass of its loop.
RECURSIVE LoopStates(_, _, _)
LoopStates(samp, confidence, st) ==
    IF moreToAccumulate(st, confidence)
    THEN {st} \cup LoopStates(samp, confidence, extend(samp, st))
    ELSE {}

\* C20: the exact path of QuantileCI is left-biased.  It starts from the
\* lower of two equal modes; whenever the bucket just below and the bucket
\* just above the interval have equal mass it extends the lower end; hence
\* no interval of the same width and the same confidence lies lower than
\* the returned one.  QuantileCI(4, 0.5, c) for a c just above 0.375
\* returns LoOrder 1, HiOrder 3, Ambiguous true and not [2, 4).
C20_LeftBiased ==
    (Returned("QuantileCI") /\ ExactPath) =>
        LET samp == BinomialDist(ciArgs.n, ciArgs.q)
            x == mode(samp)
            w == ci.HiOrder - ci.LoOrder
        IN  /\ \A k \in 0..ciArgs.n :
                   /\ RLe(BinomialPMF(samp, R(k)), BinomialPMF(samp, R(x)))
                   /\ BinomialPMF(samp, R(k)) = BinomialPMF(samp, R(x))
                          => x <= k
            /\ \A st \in LoopStates(samp, ciArgs.confidence,
                                     startAtMode(samp)) :
                   st.lp = st.rp =>
                       /\ extend(samp, st).l = st.l - 1
                       /\ extend(samp, st).r = st.r
            /\ \A l \in 0..(ciArgs.n + 1 - w) :
                   BinomialMass(samp, l, l + w) = ci.Confidence
                       => ci.LoOrder <= l
            /\ (ciArgs.n = 4 /\ ciArgs.q = Half
                    /\ ciArgs.confidence = Rat(47, 125)) =>
                   ci.LoOrder = 1 /\ ci.HiOrder = 3 /\ ci.Ambiguous

\* QuantileCI(4, 0.5, 0.376) has returned [1, 3), and [2, 4) has the same
\* mass.
C20_Witness ==
    /\ Returned("QuantileCI") /\ ExactPath
    /\ ciArgs.n = 4 /\ ciArgs.q = Half /\ ciArgs.confidence = Rat(47, 125)
    /\ ci.LoOrder = 1 /\ ci.HiOrder = 3 /\ ci.Ambiguous
    /\ BinomialMass(BinomialDist(4, Half), 2, 4) = ci.Confidence

\* The k-th smallest value of xs, 1 <= k <= Len(xs): fewer than k values
\* are below it and at least k are not above it.
KthSmallest(xs, k) ==
    CHOOSE v \in {xs[i] : i \in DOMAIN xs} :
        /\ Cardinality({i \in DOMAIN xs : xs[i] < v}) < k
        /\ k <= Cardinality({i \in DOMAIN xs : xs[i] <= v})

\* What C21 expects of lo and hi for the result ci and the values xs.
ExpectedLo(xs) ==
    IF ci.LoOrder < 1 THEN Inf(-1) ELSE Finite(R(KthSmallest(xs, ci.LoOrder)))
ExpectedHi(xs) ==
    IF ci.HiOrder > ci.N THEN Inf(1)
    ELSE Finite(R(KthSmallest(xs, ci.HiOrder)))

\* FromSample was called with an unweighted sample of the length of ci.
WellFormedSample == sample.Weights = "nil" /\ Len(sample.Xs) = ci.N

\* C21: for any result of QuantileCI(n, q, c) and any unweighted sample of
\* length n, sorted or not, FromSample returns without an index fault,
\* with lo = -Inf if LoOrder < 1 and the LoOrder-th smallest value
\* otherwise, and hi = +Inf if HiOrder > n and the HiOrder-th smallest
\* value otherwise.
C21_FromSampleBounds ==
    (Returned("FromSample") /\ WellFormedSample) =>
        /\ bounds.panic = "none"
        /\ bounds.lo = ExpectedLo(sample.Xs)
        /\ bounds.hi = ExpectedHi(sample.Xs)

\* The same for the results with HiOrder >= 1, which are all the results
\* of the shortcut and the exact path.
C21_FromSampleBoundsFromOne ==
    /\ (Returned("QuantileCI") /\ ~NormalPath) => ci.HiOrder >= 1
    /\ (Returned("FromSample") /\ WellFormedSample /\ ci.HiOrder >= 1) =>
           /\ bounds.panic = "none"
           /\ bounds.lo = ExpectedLo(sample.Xs)
           /\ bounds.hi = ExpectedHi(sample.Xs)

\* FromSample has returned two values of an unsorted sample.
C21_WitnessFromOne ==
    /\ Returned("FromSample") /\ WellFormedSample
    /\ ~IsSorted(sample.Xs)
    /\ bounds.panic = "none"
    /\ bounds.lo.inf = 0 /\ bounds.hi.inf = 0
    /\ RLt(bounds.lo.v, bounds.hi.v)

\* Under the default threshold QuantileCI has returned HiOrder = 0 and
\* FromSample has faulted on a sample of the right length.
C21_IndexFaultAtDefault ==
    /\ Returned("FromSample") /\ WellFormedSample
    /\ quantileCIApproxThreshold = DefaultApproxThreshold
    /\ ci.N = LargeN /\ ci.HiOrder = 0
    /\ bounds.panic = "index"

\* C22: FromSample panics, returning no values, if the sample has non-nil
\* Weights or len(sample.Xs) != N, and it does so before the sample is
\* copied, sorted or indexed; it returns bounds for no such sample.
C22_FromSamplePanics ==
    Returned("FromSample") =>
        /\ ~WellFormedSample <=> bounds.panic \in {"weighted", "size"}
        /\ sample.Weights # "nil" => bounds.panic = "weighted"
        /\ ~WellFormedSample =>
               /\ bounds.lo = NoBounds.lo /\ bounds.hi = NoBounds.hi
               /\ mem["copy"] = <<>>
               /\ mem["Xs"] = sample.Xs

\* FromSample has panicked on an unsorted sample of the wrong length.
C22_Witness ==
    /\ Returned("FromSample")
    /\ sample.Weights = "nil" /\ Len(sample.Xs) # ci.N
    /\ ~sample.Sorted /\ ~IsSorted(sample.Xs)
    /\ bounds.panic = "size"

\* FromSample has panicked on an unsorted weighted sample of length N.
C22_WitnessWeighted ==
    /\ Returned("FromSample")
    /\ sample.Weights # "nil" /\ Len(sample.Xs) = ci.N
    /\ ~IsSorted(sample.Xs)
    /\ bounds.panic = "weighted"

(***************************************************************************)
(* NodeMarks.                                                              *)
(***************************************************************************)
\* C23: on a set made by NewNodeMarks, after any Mark and Unmark calls
\* with node ids >= 0, ids of 1024 and more included, no call has faulted
\* and Test(i) is true exactly when the last Mark or Unmark on i was
\* Mark(i).
C23_MarksFollowLastOp ==
    /\ fault = "none"
    /\ \A i \in NodeIds : Test(nodeMarks, i) <=> lastOp[i] = "Mark"

\* What holds of C23: as long as no call has faulted, Test(i) is true
\* exactly when the last Mark or Unmark on i was Mark(i).
C23_MarksFollowLastOpUnfaulted ==
    fault = "none" =>
        \A i \in NodeIds : Test(nodeMarks, i) <=> lastOp[i] = "Mark"

\* A node of the second word is marked, one of the first word was marked
\* and then unmarked, and no call has faulted.
C23_WitnessUnfaulted ==
    /\ fault = "none"
    /\ lastOp[WordBits] = "Mark" /\ Test(nodeMarks, WordBits)
    /\ lastOp[0] = "Unmark" /\ lastOp[1] = "Mark"

\* What holds of C23: a Mark or Unmark of one node that does not fault
\* leaves the mark of every other node as it was.
C23_OthersUntouched ==
    [][fault' = "none" /\ fault = "none" =>
           \A i \in NodeIds :
               lastOp'[i] = lastOp[i] /\ lastOp' # NoOps =>
                   (Test(nodeMarks', i) <=> Test(nodeMarks, i))]_vars

\* Mark(1024) on a set with node 32 marked: grow has replaced marks by a
\* single word, the mark of node 32 is lost and the store to marks[32]
\* has panicked.
C23_MarkBeyondCapacityFaults ==
    /\ fault = "index"
    /\ lastOp[InitialBits] = "Mark"
    /\ nodeMarks.marks.len = 1
    /\ lastOp[WordBits] = "Mark" /\ ~Test(nodeMarks, WordBits)

(***************************************************************************)
(* SCC.                                                                    *)
(***************************************************************************)
\* The nodes reachable from the set seen along the edges of graph.
RECURSIVE ReachableFrom(_, _)
ReachableFrom(graph, seen) ==
    LET more == seen \cup {graph[a][k] : <<a, k>> \in
                    {ak \in seen \X (1..MaxNodes) : ak[2] <= Len(graph[ak[1]])}}
    IN  IF more = seen THEN seen ELSE ReachableFrom(graph, more)

\* The set of the elements of a sequence.
Elems(xs) == {xs[k] : k \in 1..Len(xs)}

\* C24: SCC(g, SCCEdges) returns components that partition the nodes of
\* g, two nodes sharing a component iff each is reachable from the other,
\* numbered in reverse topological order: Out(c) lists, without
\* duplicates, exactly the other components reached by an edge of g from
\* a node of c, and each of them has an ID smaller than c.
C24_SCCComponents ==
    Returned("SCC") /\ "SCCEdges" \in flagsArg =>
        \A reach \in {[a \in DOMAIN gArg |-> ReachableFrom(gArg, {a})]} :
        \A subs \in {[c \in 0..(SCCNumNodes(sccs) - 1) |->
                          Elems(Subnodes(sccs, c))]} :
        LET nodes == DOMAIN gArg
            cids == DOMAIN subs
            comp(a) == SubnodeComponent(sccs, a)
        IN  /\ Len(sccs.subnodes) = NumNodes(gArg)
            /\ \A a \in nodes : \A c \in cids : a \in subs[c] <=> c = comp(a)
            /\ \A c \in cids : subs[c] # {}
            /\ \A a, b \in nodes :
                   comp(a) = comp(b) <=> b \in reach[a] /\ a \in reach[b]
            /\ \A c \in cids :
                   /\ Cardinality(Elems(Out(sccs, c))) = Len(Out(sccs, c))
                   /\ Elems(Out(sccs, c)) =
                          {comp(gArg[a][k]) : <<a, k>> \in
                               {ak \in subs[c] \X (1..MaxNodes) :
                                    ak[2] <= Len(gArg[ak[1]])}} \ {c}
                   /\ \A o \in Elems(Out(sccs, c)) : o < c

\* SCC has returned two components for a graph in which both nodes of
\* the later component have an edge into the earlier one: Out lists the
\* earlier component once.
C24_Witness ==
    /\ Returned("SCC") /\ "SCCEdges" \in flagsArg
    /\ SCCNumNodes(sccs) = 2
    /\ Len(Subnodes(sccs, 1)) = 2
    /\ \A a \in Elems(Subnodes(sccs, 1)) :
           \E k \in 1..Len(gArg[a]) : SubnodeComponent(sccs, gArg[a][k]) = 0
    /\ Out(sccs, 1) = <<0>>

(***************************************************************************)
(* The odometer of UDist.permCount.                                        *)
(***************************************************************************)
\* The state of the loop of permCount before its first pass.
permStart(dist) ==
    [u |-> Append(zeros(Len(dist.T) - 1), -1), count |-> 0, done |-> FALSE]

\* The u vectors the passes of the loop of permCount reach after the
\* carry, in order, from the state st until the loop returns.
RECURSIVE permVisits(_, _, _, _)
permVisits(dist, twoUthresh, cmp, st) ==
    \* permStep is computed once per pass
    LET rest(st2) == IF st2.done THEN <<>>
                     ELSE <<st2.u>> \o permVisits(dist, twoUthresh, cmp, st2)
    IN  Only({rest(st2) : st2 \in {permStep(dist, twoUthresh, cmp, st)}})

\* The place of u in the lexicographic order of the vectors 0 <= u <= T.
RECURSIVE lexRank(_, _, _)
lexRank(T, u, i) ==
    IF i = 0 THEN 0 ELSE lexRank(T, u, i - 1) * (T[i] + 1) + u[i]

\* The number of the vectors 0 <= u <= T.
RECURSIVE boxSize(_, _)
boxSize(T, i) == IF i = 0 THEN 1 ELSE boxSize(T, i - 1) * (T[i] + 1)

\* Whether permCount counts a u vector with this 2U.
counted(twoU, twoUthresh, cmp) ==
    ~ \/ cmp < 0 /\ twoU > twoUthresh
      \/ cmp = 0 /\ twoU # twoUthresh
      \/ cmp > 0 /\ twoU < twoUthresh

\* The sum of prod over the vectors of visits that have sum N1 and a
\* counted 2U.
RECURSIVE countOver(_, _, _, _, _)
countOver(dist, visits, k, twoUthresh, cmp) ==
    IF k = 0 THEN 0
    ELSE countOver(dist, visits, k - 1, twoUthresh, cmp)
         + (IF /\ sumint(visits[k]) = dist.N1
               /\ counted(twoUOf(dist.T, visits[k], 1, 0), twoUthresh, cmp)
            THEN prodChoose(dist.T, visits[k], 1) ELSE 0)

\* The threshold and the comparison PMF and CDF hand to permCount.
permArgs == [twoUthresh |-> Trunc(RMul(R(2), U)),
             cmp |-> IF call = "PMF" THEN 0 ELSE 0 - 1]

\* PMF or CDF of a tied distribution has returned through permCount.
PermCounted ==
    /\ pc = "returned" /\ call \in {"PMF", "CDF"}
    /\ hasTies(d)
    /\ RLe(R(0), U) /\ RLt(U, R(d.N1 * d.N2))

\* C25: for every non-empty tie vector T the odometer loop of permCount
\* visits every integer vector u with 0 <= u_i <= T_i exactly once, in
\* lexicographic order from the all-zero vector, counts only those with
\* sum(u) = N1, and returns after the vector equal to T has been visited.
C25_OdometerVisitsBox ==
    PermCounted =>
        \A visits \in {permVisits(d, permArgs.twoUthresh, permArgs.cmp,
                                  permStart(d))} :
            /\ Len(visits) = boxSize(d.T, Len(d.T))
            /\ \A k \in 1..Len(visits) :
                   /\ Len(visits[k]) = Len(d.T)
                   /\ \A i \in 1..Len(d.T) :
                          0 <= visits[k][i] /\ visits[k][i] <= d.T[i]
                   /\ lexRank(d.T, visits[k], Len(d.T)) = k - 1
            /\ visits[1] = zeros(Len(d.T))
            /\ visits[Len(visits)] = d.T
            /\ permCount(d, permArgs.twoUthresh, permArgs.cmp)
                   = countOver(d, visits, Len(visits),
                               permArgs.twoUthresh, permArgs.cmp)
            /\ ret = Rat(countOver(d, visits, Len(visits),
                                   permArgs.twoUthresh, permArgs.cmp),
                         choose(d.N1 + d.N2, d.N1))

\* PMF has returned a positive probability for a tie vector of three
\* entries, one of them above 1: the odometer has carried twice in a row
\* and has skipped vectors whose sum is not N1.
C25_Witness ==
    /\ PermCounted /\ call = "PMF"
    /\ Len(d.T) = 3 /\ d.T[2] = 2 /\ d.N1 = 2
    /\ RLt(R(0), ret)

(***************************************************************************)
(* The exact path of QuantileCI.                                           *)
(***************************************************************************)
\* C26: on the exact path of QuantileCI, for n >= 0, q in [0,1] and a
\* confidence < 1, no contiguous run of fewer than HiOrder-LoOrder binomial
\* buckets has a total mass >= the requested confidence.  When the
\* requested confidence equals the mass accumulated so far the interval is
\* not widened: QuantileCI(4, 0.5, 0.375) returns LoOrder 2, HiOrder 3,
\* Confidence 0.375, Ambiguous false.
C26_ExactNarrowest ==
    (Returned("QuantileCI") /\ ExactPath) =>
        LET samp == BinomialDist(ciArgs.n, ciArgs.q)
            width == ci.HiOrder - ci.LoOrder
        IN  /\ width >= 1
            /\ \A a \in 0..ciArgs.n : \A b \in 1..(ciArgs.n + 1) :
                   (a < b /\ b - a < width) =>
                       RLt(BinomialMass(samp, a, b), ciArgs.confidence)
            /\ (ciArgs.n = 4 /\ ciArgs.q = Rat(1, 2)
                    /\ ciArgs.confidence = Rat(3, 8)) =>
                   ci = QuantileCIResult(Rat(1, 2), 4, Rat(3, 8), 2, 3, FALSE)

\* QuantileCI(4, 0.5, 0.375) has returned on the exact path.
C26_Witness ==
    /\ Returned("QuantileCI") /\ ExactPath
    /\ ciArgs = [n |-> 4, q |-> Rat(1, 2), confidence |-> Rat(3, 8)]
    /\ ci.LoOrder = 2 /\ ci.HiOrder = 3

\* The exact path has returned an interval of three buckets or more for
\* a quantile other than the median.
C26_WitnessWide ==
    /\ Returned("QuantileCI") /\ ExactPath
    /\ ciArgs.q \notin {R(0), Rat(1, 2), R(1)}
    /\ ci.HiOrder - ci.LoOrder >= 3
    /\ RLt(ci.Confidence, R(1))

\* The locals of the exact path at loop entry, after every extension and
\* at exit, for the arguments of the call.
ExactLoopStates ==
    LET samp == BinomialDist(ciArgs.n, ciArgs.q)
    IN  LoopStates(samp, ciArgs.confidence, startAtMode(samp))
            \cup {accumulate(samp, ciArgs.confidence, startAtMode(samp))}

\* C27: on the exact path of QuantileCI, at loop entry, after every
\* extension and at exit, accum is the sum of BinomialDist{n,q}.PMF(k) over
\* k in [l, r-1], with l <= mode < r; the returned Confidence is the
\* binomial mass of the buckets LoOrder..HiOrder-1.
C27_AccumIsMass ==
    (Returned("QuantileCI") /\ ExactPath) =>
        LET samp == BinomialDist(ciArgs.n, ciArgs.q)
        IN  /\ \A st \in ExactLoopStates :
                   /\ st.accum = BinomialMass(samp, st.l, st.r)
                   /\ st.l <= mode(samp) /\ mode(samp) < st.r
                   /\ st.lp = BinomialPMF(samp, R(st.l - 1))
                   /\ st.rp = BinomialPMF(samp, R(st.r))
            /\ \E st \in ExactLoopStates :
                   /\ ~moreToAccumulate(st, ciArgs.confidence)
                   /\ ci.LoOrder = st.l /\ ci.HiOrder = st.r
                   /\ ci.Confidence = st.accum
            /\ ci.Confidence = BinomialMass(samp, ci.LoOrder, ci.HiOrder)

\* The exact path has returned after extending the interval twice to the
\* left and at least once to the right of the mode.
C27_Witness ==
    /\ Returned("QuantileCI") /\ ExactPath
    /\ ci.LoOrder <= mode(BinomialDist(ciArgs.n, ciArgs.q)) - 2
    /\ ci.HiOrder >= mode(BinomialDist(ciArgs.n, ciArgs.q)) + 2
    /\ Cardinality(ExactLoopStates) >= 4
    /\ RLt(ci.Confidence, R(1))

\* C28: the accumulation loop of the exact path of QuantileCI terminates
\* for n >= 0, q in [0,1] and a confidence < 1 after at most n extensions;
\* it stops exactly when the accumulated mass is >= the requested
\* confidence or both neighbouring buckets have zero mass, and it never
\* extends the interval beyond [0, n+1].
C28_LoopTerminates ==
    (Returned("QuantileCI") /\ ExactPath) =>
        \A start \in {startAtMode(BinomialDist(ciArgs.n, ciArgs.q))} :
        \A passes \in {LoopStates(BinomialDist(ciArgs.n, ciArgs.q),
                                  ciArgs.confidence, start)} :
        \A final \in {accumulate(BinomialDist(ciArgs.n, ciArgs.q),
                                 ciArgs.confidence, start)} :
            /\ Cardinality(passes) <= ciArgs.n
            /\ Cardinality(passes) = (final.r - final.l) - 1
            /\ \A st \in passes \cup {final} :
                   0 <= st.l /\ st.l < st.r /\ st.r <= ciArgs.n + 1
            /\ \A st \in passes :
                   /\ RLt(st.accum, ciArgs.confidence)
                   /\ (RLt(R(0), st.lp) \/ RLt(R(0), st.rp))
            /\ \/ RLe(ciArgs.confidence, final.accum)
               \/ final.lp = R(0) /\ final.rp = R(0)
            /\ ci.LoOrder = final.l /\ ci.HiOrder = final.r

\* The loop has made n extensions, n >= 3, in both directions: the
\* interval has reached [0, n+1) for a confidence below 1.
C28_Witness ==
    /\ Returned("QuantileCI") /\ ExactPath
    /\ ciArgs.n >= 3 /\ ciArgs.q \notin {R(0), R(1)}
    /\ ci.LoOrder = 0 /\ ci.HiOrder = ciArgs.n + 1
    /\ RLt(ciArgs.confidence, R(1))

\* The loop has stopped before the whole range with one neighbouring
\* bucket of positive mass left on each side.
C28_WitnessStopped ==
    /\ Returned("QuantileCI") /\ ExactPath
    /\ ci.LoOrder > 0 /\ ci.HiOrder < ciArgs.n + 1
    /\ ci.HiOrder - ci.LoOrder >= 2
    /\ RLe(ciArgs.confidence, ci.Confidence)

(***************************************************************************)
(* The tied and the untied algorithm of UDist.                             *)
(***************************************************************************)
\* The tie vector of n untied observations: an n slice of 1s.
ones(n) == [i \in 1..n |-> 1]

\* permCount on the all-ones tie vector of length N1+N2 and the
\* recurrence p agree at the integer Ui, neither of them panicking:
\* permCount(2Ui, 0) / C(N1+N2, N1) = p(Ui)[Ui] and
\* permCount(2Ui, -1) / C(N1+N2, N1) = p(Ui)[0] + ... + p(Ui)[Ui].
TiedAgreesWithDP(dist, Ui) ==
    LET tied == UDist(dist.N1, dist.N2, ones(dist.N1 + dist.N2))
        total == choose(dist.N1 + dist.N2, dist.N1)
    IN  \A eq \in {permCountOrPanic(tied, 2 * Ui, 0)} :
        \A le \in {permCountOrPanic(tied, 2 * Ui, 0 - 1)} :
        \A dp \in {pOrPanic(dist, Ui)} :
            /\ ~eq.panic /\ ~le.panic /\ ~dp.panic
            /\ Rat(eq.count, total) = dp.pdfs[Ui]
            /\ Rat(le.count, total) = sumTo(dp.pdfs, Ui)

\* PMF or CDF of an untied distribution of at most MaxOnes observations
\* has returned for an integer U.
UntiedAtInteger ==
    /\ pc = "returned" /\ call \in {"PMF", "CDF"}
    /\ d.T = <<>> /\ d.N1 + d.N2 <= MaxOnes
    /\ IsInteger(U)

\* C29: for every N1, N2 >= 0 and every integer U the split-vector
\* enumeration on the all-ones tie vector of length N1+N2 gives the counts
\* of the recurrence: permCount(2U, 0) / C(N1+N2, N1) = p(U)[U] and
\* permCount(2U, -1) / C(N1+N2, N1) = the sum of p(U)[0..U].
C29_TiedAgreesWithDP ==
    UntiedAtInteger => TiedAgreesWithDP(d, U[1])

\* C29 as amended: the same for N1 + N2 >= 1 and every integer U >= 0;
\* there PMF(U) of the untied distribution is permCount(2U, 0) /
\* C(N1+N2, N1) of the all-ones one.
C29_TiedAgreesWithDPInDomain ==
    (UntiedAtInteger /\ d.N1 + d.N2 >= 1 /\ U[1] >= 0) =>
        /\ TiedAgreesWithDP(d, U[1])
        /\ call = "PMF" =>
               ret = Rat(permCount(UDist(d.N1, d.N2, ones(d.N1 + d.N2)),
                                   2 * U[1], 0),
                         choose(d.N1 + d.N2, d.N1))

\* PMF of an untied distribution of 3 and 3 observations has returned a
\* positive probability below 1/2 at an integer U inside the range.
C29_Witness ==
    /\ UntiedAtInteger /\ call = "PMF"
    /\ d.N1 = 3 /\ d.N2 = 3 /\ U[1] = 4
    /\ RLt(R(0), ret) /\ RLt(ret, Rat(1, 2))

(***************************************************************************)
(* The table of UDist.p.                                                   *)
(***************************************************************************)
\* PMF of an untied distribution has returned.
UntiedPMF == Returned("PMF") /\ d.T = <<>>

\* C30: for an untied UDist the table of p is symmetric in the sample
\* sizes: for all N1, N2 >= 0 and every U, UDist{N1,N2}.PMF(U) =
\* UDist{N2,N1}.PMF(U); and the value p(U)[u] computed for u <= U does not
\* depend on the table bound U.
C30_TableSymmetric ==
    UntiedPMF =>
        /\ ret = PMF(UDist(d.N2, d.N1, <<>>), U)
        /\ (RLe(R(0), U) /\ RLt(U, RAdd(Rat(1, 2), R(d.N1 * d.N2)))) =>
               \A small \in {p(d, Floor(U))} :
               \A large \in {p(d, d.N1 * d.N2 + 1)} :
               \A mirror \in {p(UDist(d.N2, d.N1, <<>>), Floor(U))} :
                   /\ ret = small[Floor(U)]
                   /\ \A u \in 0..Floor(U) :
                          /\ small[u] = large[u]
                          /\ small[u] = mirror[u]

\* PMF has returned a positive probability for an untied distribution
\* with N1 > N2 >= 2 at a U inside the range, where the loop over n has
\* read the mirrored row m-1.
C30_Witness ==
    /\ UntiedPMF
    /\ d.N1 > d.N2 /\ d.N2 >= 2
    /\ RLe(R(2), U) /\ RLt(U, R(d.N1 * d.N2 - 1))
    /\ RLt(R(0), ret)

=============================================================================
